---- MODULE Spec2Model ----
(***************************************************************************)
(* A model of the invoice extraction service: the self-validating invoice  *)
(* models (app/domain/models/invoice.py), the extraction call and the      *)
(* consistency validator (app/infrastructure/ai/openai_client.py).         *)
(*                                                                         *)
(* Money is an exact decimal (Decimal in the source); the model counts it  *)
(* in cents, so 0.01 is 1, 1.00 is 100 and 5.00 is 500.  A tax rate is     *)
(* counted in hundredths, so the rate 0.08 is 8 and the rate 1 is 100; the *)
(* product subtotal * tax_rate is then in hundredths of a cent and is      *)
(* compared exactly, without rounding, as Decimal does.                    *)
(***************************************************************************)
EXTENDS Integers, Sequences, FiniteSets, TLC

VARIABLES
    item,       \* the InvoiceItem built by the last construction: None or <<object>>
    invoice,    \* the InvoiceData built by the last construction: None or <<object>>
    errors,     \* the ValidationError of the last model operation: a set of line errors
    request,    \* the last model operation and its input: None or <<[op, ...]>>
    nAssign,    \* the number of field assignments made so far
    uploads,    \* the document ids whose image file exists
    now,        \* time.time(), in ticks
    calls,      \* the extract_invoice_data calls of this run
    call,       \* each call's position, locals and returned ExtractionResult
    subject,    \* the object given to validate_extraction: None or <<object>>
    report,     \* the report validate_extraction returned last: None or <<report>>
    previous,   \* the report it returned the time before: None or <<report>>
    escaped,    \* whether an exception left validate_extraction
    handler,    \* the POST /extract/<document_id> request: position, locals, response
    batch,      \* the POST /extract/batch request: position, locals, response
    store,      \* invoices.csv and invoice_details.csv: the rows of each file
    saved,      \* the invoices save_extracted_invoice has saved, in order
    loaded,     \* what get_invoice_by_id returned last: None or <<dict>>
    storeCall,  \* the last call of the data manager: arguments, storage before, return value
    drawn,      \* the number of invoice ids uuid4 has drawn for the data manager
    worker,     \* the requests that use the data manager at once: position and locals
    scored,     \* the object given to _calculate_confidence_score: None or <<object>>
    score       \* the score it returned last, in tenths: None or <<score>>

modelVars == <<item, invoice, errors, request, nAssign>>

extractVars == <<uploads, now, calls, call>>

validateVars == <<subject, report, previous, escaped>>

endpointVars == <<handler, batch>>

managerVars == <<storeCall, drawn, worker>>

storeVars == <<store, saved, loaded, managerVars>>

scoreVars == <<scored, score>>

serviceVars == <<endpointVars, storeVars, scoreVars>>

vars == <<modelVars, extractVars, validateVars, serviceVars>>

(***************************************************************************)
(* Optional values, and arithmetic helpers.                                *)
(***************************************************************************)
None == <<>>

Some(x) == <<x>>

Abs(x) == IF x < 0 THEN -x ELSE x

(***************************************************************************)
(* Program constants, in the units above.                                  *)
(***************************************************************************)
\* Decimal('0.01') in InvoiceItem.validate_total
LineTolerance == 1

\* Decimal('0.01') in InvoiceData.validate_subtotal
SubtotalTolerance == 1

\* Decimal('1.00') in InvoiceData.validate_tax
TaxTolerance == 100

\* Decimal('5.00') in InvoiceData.validate_total
TotalTolerance == 500

\* tax_rate: Field(ge=0, le=1): the rate 1, in hundredths
RateOne == 100

(***************************************************************************)
(* pydantic line errors.  A constraint error carries the offending input;  *)
(* a ValueError raised by a validator carries the two values its message   *)
(* names: the stored value and the recomputed one.                         *)
(***************************************************************************)
ConstraintError(loc, type, input) ==
    {[loc |-> loc, type |-> type, input |-> input]}

ValueError(loc, stored, calculated) ==
    {[loc |-> loc, type |-> "value_error", stored |-> stored, calculated |-> calculated]}

(***************************************************************************)
(* InvoiceItem: the fields in definition order, and the validator of       *)
(* `total`.  `values` holds the fields validated so far (on construction)  *)
(* or every other field of the object (on assignment).                     *)
(***************************************************************************)
InvoiceItemFields == <<"description", "quantity", "unit_price", "total">>

\* A mutant of InvoiceItem_validate_total: ">=" for ">", which rejects a
\* line total that is off by exactly 0.01.
InvoiceItem_validate_total_strict(v, values) ==
    IF "quantity" \in DOMAIN values /\ "unit_price" \in DOMAIN values
    THEN LET calculated_total == values.quantity * values.unit_price
         IN  IF Abs(calculated_total - v) >= LineTolerance
             THEN ValueError("total", v, calculated_total)
             ELSE {}
    ELSE {}

InvoiceItem_validate_total(v, values) ==
    IF "quantity" \in DOMAIN values /\ "unit_price" \in DOMAIN values
    THEN LET calculated_total == values.quantity * values.unit_price
         IN  IF Abs(calculated_total - v) > LineTolerance
             THEN ValueError("total", v, calculated_total)
             ELSE {}
    ELSE {}

\* One field of an InvoiceItem: its Field(...) constraint, then its validator.
InvoiceItem_field(f, v, values) ==
    CASE f = "quantity" ->
            IF v > 0 THEN {} ELSE ConstraintError(f, "greater_than", v)
      [] f = "unit_price" ->
            IF v >= 0 THEN {} ELSE ConstraintError(f, "greater_than_equal", v)
      [] f = "total" ->
            IF v >= 0 THEN InvoiceItem_validate_total(v, values)
            ELSE ConstraintError(f, "greater_than_equal", v)
      [] OTHER -> {}

(***************************************************************************)
(* InvoiceData: the fields in definition order and the three validators.   *)
(***************************************************************************)
\* Of an Address the model keeps street and city; of the optional fields,
\* invoice_date (None or <<date>>).
InvoiceDataFields ==
    <<"invoice_number", "invoice_date", "customer_name", "billing_address",
      "items", "subtotal", "tax_rate", "tax", "total">>

RECURSIVE SumTotals(_)
\* sum(item.total for item in items)
SumTotals(items) ==
    IF items = <<>> THEN 0 ELSE Head(items).total + SumTotals(Tail(items))

\* A mutant of validate_subtotal: the tolerance is the 1.00 of the tax.
InvoiceData_validate_subtotal_lenient(v, values) ==
    IF "items" \in DOMAIN values
    THEN LET calculated_subtotal == SumTotals(values.items)
         IN  IF Abs(calculated_subtotal - v) > TaxTolerance
             THEN ValueError("subtotal", v, calculated_subtotal)
             ELSE {}
    ELSE {}

InvoiceData_validate_subtotal(v, values) ==
    IF "items" \in DOMAIN values
    THEN LET calculated_subtotal == SumTotals(values.items)
         IN  IF Abs(calculated_subtotal - v) > SubtotalTolerance
             THEN ValueError("subtotal", v, calculated_subtotal)
             ELSE {}
    ELSE {}

\* calculated_tax = subtotal * tax_rate is in hundredths of a cent; the
\* stored tax and the tolerance are brought to the same unit.
InvoiceData_validate_tax(v, values) ==
    IF "subtotal" \in DOMAIN values /\ "tax_rate" \in DOMAIN values
    THEN LET calculated_tax == values.subtotal * values.tax_rate
         IN  IF Abs(calculated_tax - v * RateOne) > TaxTolerance * RateOne
             THEN ValueError("tax", v * RateOne, calculated_tax)
             ELSE {}
    ELSE {}

\* A mutant of InvoiceData_validate_total: the difference is compared
\* without abs(), which lets a total that is too large pass.
InvoiceData_validate_total_signed(v, values) ==
    IF "subtotal" \in DOMAIN values /\ "tax" \in DOMAIN values
    THEN LET calculated_total == values.subtotal + values.tax
         IN  IF calculated_total - v > TotalTolerance
             THEN ValueError("total", v, calculated_total)
             ELSE {}
    ELSE {}

InvoiceData_validate_total(v, values) ==
    IF "subtotal" \in DOMAIN values /\ "tax" \in DOMAIN values
    THEN LET calculated_total == values.subtotal + values.tax
         IN  IF Abs(calculated_total - v) > TotalTolerance
             THEN ValueError("total", v, calculated_total)
             ELSE {}
    ELSE {}

(***************************************************************************)
(* pydantic's model validation: the fields are validated in definition     *)
(* order; a field that fails is left out of `values`, and every line       *)
(* error is collected.  A field the input does not give takes its default  *)
(* (which is not validated) or, having none, is reported missing.          *)
(***************************************************************************)
RECURSIVE FieldErrors(_, _, _, _)

RECURSIVE FieldValue(_, _, _)

ModelFields(cls) ==
    IF cls = "InvoiceItem" THEN InvoiceItemFields ELSE InvoiceDataFields

\* The fields declared with a default, and their defaults.
FieldDefaults(cls) ==
    IF cls = "InvoiceItem" THEN [description |-> ""]
    ELSE [invoice_number |-> "", invoice_date |-> None, customer_name |-> ""]

RECURSIVE ValidateFields(_, _, _, _, _)
ValidateFields(cls, fields, raw, values, errs) ==
    IF fields = <<>>
    THEN [values |-> values, errors |-> errs]
    ELSE LET f == Head(fields)
         IN  IF f \in DOMAIN raw
             THEN LET e == FieldErrors(cls, f, raw[f], values)
                  IN  ValidateFields(cls, Tail(fields), raw,
                                     IF e = {} THEN values @@ (f :> FieldValue(cls, f, raw[f]))
                                     ELSE values,
                                     errs \cup e)
             ELSE IF f \in DOMAIN FieldDefaults(cls)
             THEN ValidateFields(cls, Tail(fields), raw,
                                 values @@ (f :> FieldDefaults(cls)[f]), errs)
             ELSE ValidateFields(cls, Tail(fields), raw, values,
                                 errs \cup {[loc |-> f, type |-> "missing"]})

\* cls(raw), keyword by keyword: the object when every field validated, else the ValidationError.
Construct(cls, raw) ==
    LET r == ValidateFields(cls, ModelFields(cls), raw, <<>>, {})
    IN  [ok |-> r.errors = {}, object |-> r.values, errors |-> r.errors]

\* A mutant of the items field: min_length=1 is missing.
InvoiceData_items_any(v) ==
    LET bad == {i \in 1..Len(v) : ~Construct("InvoiceItem", v[i]).ok}
    IN  UNION {{[loc |-> "items", type |-> e.type, index |-> i, error |-> e]
                   : e \in Construct("InvoiceItem", v[i]).errors} : i \in bad}

\* items: List[InvoiceItem] = Field(min_length=1): every element is
\* validated as an InvoiceItem, and the list must not be empty.
InvoiceData_items(v) ==
    LET bad == {i \in 1..Len(v) : ~Construct("InvoiceItem", v[i]).ok}
    IN  IF bad /= {}
        THEN UNION {{[loc |-> "items", type |-> e.type, index |-> i, error |-> e]
                        : e \in Construct("InvoiceItem", v[i]).errors} : i \in bad}
        ELSE IF Len(v) < 1 THEN ConstraintError("items", "too_short", Len(v))
        ELSE {}

\* One field of an InvoiceData: its Field(...) constraint, then its validator.
InvoiceData_field(f, v, values) ==
    CASE f = "items" -> InvoiceData_items(v)
      [] f = "subtotal" ->
            IF v >= 0 THEN InvoiceData_validate_subtotal(v, values)
            ELSE ConstraintError(f, "greater_than_equal", v)
      [] f = "tax_rate" ->
            IF v < 0 THEN ConstraintError(f, "greater_than_equal", v)
            ELSE IF v > RateOne THEN ConstraintError(f, "less_than_equal", v)
            ELSE {}
      [] f = "tax" ->
            IF v >= 0 THEN InvoiceData_validate_tax(v, values)
            ELSE ConstraintError(f, "greater_than_equal", v)
      [] f = "total" ->
            IF v >= 0 THEN InvoiceData_validate_total(v, values)
            ELSE ConstraintError(f, "greater_than_equal", v)
      [] OTHER -> {}

FieldErrors(cls, f, v, values) ==
    IF cls = "InvoiceItem" THEN InvoiceItem_field(f, v, values)
    ELSE InvoiceData_field(f, v, values)

\* The value a valid input becomes: the elements of `items` become
\* InvoiceItem objects; an exact number or a string stays what it is.
FieldValue(cls, f, v) ==
    IF cls = "InvoiceData" /\ f = "items"
    THEN [i \in 1..Len(v) |-> Construct("InvoiceItem", v[i]).object]
    ELSE v

(***************************************************************************)
(* The inputs the model draws from.  Line items: quantities around the     *)
(* gt=0 bound, prices and totals around the ge=0 bound and around          *)
(* quantity * unit_price +- 0.01.                                          *)
(***************************************************************************)
MaxQuantity == 3

MaxItems == 2

ItemQuantities == -1..MaxQuantity

ItemPrices == {-100, 0, 1, 1000}

ItemTotals ==
    {-100, 0, 1, 2, 999, 1000, 1001, 1002, 2998, 2999, 3000, 3001, 3002, 3100}

ItemInputs ==
    [description : {"", "Widget"}, quantity : ItemQuantities,
     unit_price : ItemPrices, total : ItemTotals]

\* The line items an invoice payload is made of: two exact ones, one off by
\* 1.00 (rejected) and one with a quantity of 0 (rejected).
ItemChoices ==
    {[description |-> "Widget", quantity |-> 1, unit_price |-> 7000, total |-> 7000],
     [description |-> "", quantity |-> 3, unit_price |-> 1000, total |-> 3000],
     [description |-> "Widget", quantity |-> 3, unit_price |-> 1000, total |-> 3100],
     [description |-> "Widget", quantity |-> 0, unit_price |-> 1000, total |-> 0]}

ItemLists == UNION {[1..n -> ItemChoices] : n \in 0..MaxItems}

InvoiceSubtotals == {-100, 3000, 10000, 10001, 10002}

InvoiceTaxRates == {-1, 0, 8, 101}

InvoiceTaxes == {-100, 0, 700, 800, 901}

InvoiceTotals == {-100, 3000, 10800, 11300, 11301, 20000}

Addresses == {[street |-> "", city |-> "Springfield"],
              [street |-> "1 Main St", city |-> "Springfield"]}

\* An invoice without items whose amounts agree with each other.
NoItemsInput ==
    [invoice_number |-> "INV-1", customer_name |-> "ACME",
     billing_address |-> [street |-> "1 Main St", city |-> "Springfield"],
     items |-> <<>>, subtotal |-> 0, tax_rate |-> 8, tax |-> 0, total |-> 0]

\* invoice_date is not given: it takes its default, None.
InvoiceInputs ==
    [invoice_number : {"", "INV-1"}, customer_name : {"", "ACME"},
     billing_address : {[street |-> "1 Main St", city |-> "Springfield"]},
     items : ItemLists, subtotal : InvoiceSubtotals, tax_rate : InvoiceTaxRates,
     tax : InvoiceTaxes, total : InvoiceTotals]
       \cup {NoItemsInput}

(***************************************************************************)
(* Construction of an InvoiceItem and of an InvoiceData.  A rejected       *)
(* input raises the ValidationError and leaves no object.                  *)
(***************************************************************************)
Build(cls, raw) ==
    LET r == Construct(cls, raw)
    IN  /\ request' = Some([op |-> cls, input |-> raw])
        /\ errors' = r.errors
        /\ IF cls = "InvoiceItem"
           THEN /\ item' = IF r.ok THEN Some(r.object) ELSE None
                /\ UNCHANGED invoice
           ELSE /\ invoice' = IF r.ok THEN Some(r.object) ELSE None
                /\ UNCHANGED item
        /\ UNCHANGED <<nAssign, extractVars, validateVars, serviceVars>>

NewInvoiceItem ==
    /\ request = None
    /\ \E raw \in ItemInputs : Build("InvoiceItem", raw)

NewInvoiceData ==
    /\ request = None
    /\ \E raw \in InvoiceInputs : Build("InvoiceData", raw)

\* Nothing has been constructed yet.
ModelInit ==
    /\ item = None
    /\ invoice = None
    /\ errors = {}
    /\ request = None
    /\ nAssign = 0

\* No extraction call is part of the run.
ExtractIdle ==
    /\ uploads = {}
    /\ now = 0
    /\ calls = {}
    /\ call = <<>>

\* No validation is part of the run.
ValidateIdle ==
    /\ subject = None
    /\ report = None
    /\ previous = None
    /\ escaped = FALSE

\* No call of the data manager was made, and no request is using it.
ManagerIdle ==
    /\ storeCall = [op |-> "none", n |-> 0]
    /\ drawn = 0
    /\ worker = <<>>

\* No request is being served, nothing is stored, nothing is scored.
ServiceIdle ==
    /\ handler = [pc |-> "NoRequest"]
    /\ batch = [pc |-> "NoRequest"]
    /\ store = [invoices |-> <<>>, details |-> <<>>]
    /\ saved = <<>>
    /\ loaded = None
    /\ ManagerIdle
    /\ scored = None
    /\ score = None

Init == ModelInit /\ ExtractIdle /\ ValidateIdle /\ ServiceIdle

Next == NewInvoiceItem \/ NewInvoiceData

Spec == Init /\ [][Next]_vars

(***************************************************************************)
(* Assignment under validate_assignment=True.  pydantic validates the      *)
(* assigned field alone: its constraint and its own validator, with the    *)
(* object's other fields as `values`.  The validators of the other fields  *)
(* are not run again.  A rejected assignment leaves the object as it was.  *)
(***************************************************************************)
MaxAssign == 2

SetField(cls, obj, f, v) ==
    LET values == [g \in (DOMAIN obj) \ {f} |-> obj[g]]
        e == FieldErrors(cls, f, v, values)
    IN  [ok |-> e = {},
         object |-> IF e = {} THEN [obj EXCEPT ![f] = FieldValue(cls, f, v)] ELSE obj,
         errors |-> e]

\* The values a field is assigned in the model.
AssignedValues(cls, f) ==
    IF cls = "InvoiceItem"
    THEN CASE f = "quantity" -> ItemQuantities
           [] f = "unit_price" -> ItemPrices
           [] f = "total" -> ItemTotals
    ELSE CASE f = "items" -> ItemLists
           [] f = "subtotal" -> InvoiceSubtotals
           [] f = "tax_rate" -> InvoiceTaxRates
           [] f = "tax" -> InvoiceTaxes
           [] f = "total" -> InvoiceTotals

\* The objects the assignments start from: the line item 3 x 10.00 = 30.00
\* and the invoice 100.00 + 8% = 108.00 over two exact line items.
SeedItem ==
    [description |-> "Widget", quantity |-> 3, unit_price |-> 1000, total |-> 3000]

SeedInvoice ==
    [invoice_number |-> "INV-1", customer_name |-> "ACME",
     billing_address |-> [street |-> "1 Main St", city |-> "Springfield"],
     items |-> <<[description |-> "Widget", quantity |-> 1, unit_price |-> 7000, total |-> 7000],
                 SeedItem>>,
     subtotal |-> 10000, tax_rate |-> 8, tax |-> 800, total |-> 10800]

NewSeedItem ==
    /\ request = None
    /\ Build("InvoiceItem", SeedItem)

NewSeedInvoice ==
    /\ request = None
    /\ Build("InvoiceData", SeedInvoice)

\* item.f = v
SetItemField ==
    /\ item /= None
    /\ nAssign < MaxAssign
    /\ \E f \in {"quantity", "unit_price", "total"} :
         \E v \in AssignedValues("InvoiceItem", f) :
            LET r == SetField("InvoiceItem", item[1], f, v)
            IN  /\ item' = Some(r.object)
                /\ errors' = r.errors
                /\ request' = Some([op |-> "setattr", cls |-> "InvoiceItem", field |-> f])
    /\ nAssign' = nAssign + 1
    /\ UNCHANGED <<invoice, extractVars, validateVars, serviceVars>>

\* invoice.f = v
SetInvoiceField ==
    /\ invoice /= None
    /\ nAssign < MaxAssign
    /\ \E f \in {"items", "subtotal", "tax_rate", "tax", "total"} :
         \E v \in AssignedValues("InvoiceData", f) :
            LET r == SetField("InvoiceData", invoice[1], f, v)
            IN  /\ invoice' = Some(r.object)
                /\ errors' = r.errors
                /\ request' = Some([op |-> "setattr", cls |-> "InvoiceData", field |-> f])
    /\ nAssign' = nAssign + 1
    /\ UNCHANGED <<item, extractVars, validateVars, serviceVars>>

\* invoice.items[i].f = v: the line item validates the assignment; the
\* invoice that holds it is not involved.
SetInvoiceItemField ==
    /\ invoice /= None
    /\ nAssign < MaxAssign
    /\ \E i \in 1..Len(invoice[1].items) :
         \E f \in {"quantity", "unit_price", "total"} :
            \E v \in AssignedValues("InvoiceItem", f) :
               LET r == SetField("InvoiceItem", invoice[1].items[i], f, v)
               IN  /\ invoice' = Some([invoice[1] EXCEPT !.items[i] = r.object])
                   /\ errors' = r.errors
                   /\ request' = Some([op |-> "setattr", cls |-> "InvoiceItem", field |-> f])
    /\ nAssign' = nAssign + 1
    /\ UNCHANGED <<item, extractVars, validateVars, serviceVars>>

NextAssign ==
    \/ NewSeedItem
    \/ NewSeedInvoice
    \/ SetItemField
    \/ SetInvoiceField
    \/ SetInvoiceItemField

SpecAssign == Init /\ [][NextAssign]_vars

(***************************************************************************)
(* OpenAIClient.extract_invoice_data.  A call goes through                 *)
(*   NotStarted -> Started -> ModelInvoked -> Parsed -> Succeeded          *)
(* and every exception raised inside the try block is handled by the       *)
(* except clause, which returns a failure result (Failed).                 *)
(***************************************************************************)
MaxClock == 3

\* time.time() counts its seconds in ticks; int(start_time) drops the rest.
TicksPerSecond == 2

\* AsyncOpenAI(max_retries=3)
MaxRetries == 3

Documents == {"doc1", "doc2"}

Exception(type, text) == [type |-> type, text |-> text]

NotStarted ==
    [pc |-> "NotStarted", document_id |-> "", start_time |-> 0, extraction_id |-> None,
     attempts |-> 0, response |-> "none", parsed |-> None, end_time |-> 0,
     result |-> None, raised |-> None]

\* The payloads the model answers with: a complete invoice, a sparse one
\* (no number, date, customer or street; an item without description),
\* one whose total is off by more than 5.00, and one whose tax is off by
\* 0.50 (accepted by construction).
CompletePayload ==
    [invoice_number |-> "INV-1", invoice_date |-> Some("2024-01-15"),
     customer_name |-> "ACME",
     billing_address |-> [street |-> "1 Main St", city |-> "Springfield"],
     items |-> <<[description |-> "Widget", quantity |-> 1, unit_price |-> 7000, total |-> 7000],
                 [description |-> "Widget", quantity |-> 3, unit_price |-> 1000, total |-> 3000]>>,
     subtotal |-> 10000, tax_rate |-> 8, tax |-> 800, total |-> 10800]

SparsePayload ==
    [billing_address |-> [street |-> "", city |-> "Springfield"],
     items |-> <<[quantity |-> 3, unit_price |-> 1000, total |-> 3000]>>,
     subtotal |-> 3000, tax_rate |-> 0, tax |-> 0, total |-> 3000]

Responses ==
    {[parsed |-> FALSE],
     [parsed |-> TRUE, content |-> CompletePayload],
     [parsed |-> TRUE, content |-> SparsePayload],
     [parsed |-> TRUE, content |-> [CompletePayload EXCEPT !.total = 20000]],
     [parsed |-> TRUE, content |-> [CompletePayload EXCEPT !.tax = 850, !.total = 10850]]}

\* all(item.description and item.quantity > 0 for item in items)
AllItemsDescribed(items) ==
    \A i \in 1..Len(items) : items[i].description /= "" /\ items[i].quantity > 0

\* A mutant of _calculate_confidence_score: the sum is not capped.
CalculateConfidenceScore_uncapped(d) ==
      8
    + (IF d.invoice_number /= "" THEN 1 ELSE 0)
    + (IF d.customer_name /= "" THEN 1 ELSE 0)
    + (IF d.items /= <<>> THEN 2 ELSE 0)
    + (IF d.billing_address.street /= "" /\ d.billing_address.city /= ""
       THEN 1 ELSE 0)
    + (IF d.subtotal > 0 THEN 1 ELSE 0)
    + (IF d.total > 0 THEN 1 ELSE 0)
    + (IF d.tax_rate >= 0 THEN 1 ELSE 0)
    + (IF d.invoice_date /= None THEN 1 ELSE 0)
    + (IF Len(d.items) > 0 THEN 1 ELSE 0)
    + (IF AllItemsDescribed(d.items) THEN 1 ELSE 0)

\* A mutant of _calculate_confidence_score: the invoice number adds nothing.
CalculateConfidenceScore_number(d) ==
    LET completeness_score ==
              (IF d.customer_name /= "" THEN 1 ELSE 0)
            + (IF d.items /= <<>> THEN 2 ELSE 0)
            + (IF d.billing_address.street /= "" /\ d.billing_address.city /= ""
               THEN 1 ELSE 0)
            + (IF d.subtotal > 0 THEN 1 ELSE 0)
            + (IF d.total > 0 THEN 1 ELSE 0)
            + (IF d.tax_rate >= 0 THEN 1 ELSE 0)
            + (IF d.invoice_date /= None THEN 1 ELSE 0)
            + (IF Len(d.items) > 0 THEN 1 ELSE 0)
            + (IF AllItemsDescribed(d.items) THEN 1 ELSE 0)
    IN  IF 8 + completeness_score < 10 THEN 8 + completeness_score ELSE 10

\* A mutant of _calculate_confidence_score: a tax rate of zero adds nothing.
CalculateConfidenceScore_taxed(d) ==
    LET completeness_score ==
              (IF d.invoice_number /= "" THEN 1 ELSE 0)
            + (IF d.customer_name /= "" THEN 1 ELSE 0)
            + (IF d.items /= <<>> THEN 2 ELSE 0)
            + (IF d.billing_address.street /= "" /\ d.billing_address.city /= ""
               THEN 1 ELSE 0)
            + (IF d.subtotal > 0 THEN 1 ELSE 0)
            + (IF d.total > 0 THEN 1 ELSE 0)
            + (IF d.tax_rate > 0 THEN 1 ELSE 0)
            + (IF d.invoice_date /= None THEN 1 ELSE 0)
            + (IF Len(d.items) > 0 THEN 1 ELSE 0)
            + (IF AllItemsDescribed(d.items) THEN 1 ELSE 0)
    IN  IF 8 + completeness_score < 10 THEN 8 + completeness_score ELSE 10

\* _calculate_confidence_score, in tenths: the base 0.8 plus the increments,
\* capped at 1.0.  (The float sums of the source give the same tenths.)
CalculateConfidenceScore(d) ==
    LET completeness_score ==
              (IF d.invoice_number /= "" THEN 1 ELSE 0)
            + (IF d.customer_name /= "" THEN 1 ELSE 0)
            + (IF d.items /= <<>> THEN 2 ELSE 0)
            + (IF d.billing_address.street /= "" /\ d.billing_address.city /= ""
               THEN 1 ELSE 0)
            + (IF d.subtotal > 0 THEN 1 ELSE 0)
            + (IF d.total > 0 THEN 1 ELSE 0)
            + (IF d.tax_rate >= 0 THEN 1 ELSE 0)
            + (IF d.invoice_date /= None THEN 1 ELSE 0)
            + (IF Len(d.items) > 0 THEN 1 ELSE 0)
            + (IF AllItemsDescribed(d.items) THEN 1 ELSE 0)
        base_confidence == 8
    IN  IF base_confidence + completeness_score < 10
        THEN base_confidence + completeness_score ELSE 10

\* A mutant of Caught: the clause reads "except ValueError", which lets
\* the errors of the file system and of the API client through.
Caught_ValueError(e) == e.type \in {"ValueError", "ValidationError"}

\* except Exception as e: every exception of the try block is caught.
Caught(e) == TRUE

\* The result the except clause returns at time t.
FailureResult(st, e, t) ==
    [document_id |-> st.document_id, extraction_id |-> st.extraction_id,
     success |-> FALSE, extracted_data |-> None, confidence_score |-> None,
     processing_time |-> Some(t - st.start_time),
     error_message |-> Some(<<"Failed to extract invoice data: ", e.text>>)]

\* ExtractionResult.is_valid
IsValid(result) == result.success /\ result.extracted_data /= None

\* A mutant of the success result: extracted_data is left out.
SuccessResult_bare(st, t) ==
    [document_id |-> st.document_id, extraction_id |-> st.extraction_id,
     success |-> TRUE, extracted_data |-> None,
     confidence_score |-> Some(CalculateConfidenceScore(st.parsed[1])),
     processing_time |-> Some(t - st.start_time),
     error_message |-> None]

\* The result the try block returns; processing_time was taken at time t.
SuccessResult(st, t) ==
    [document_id |-> st.document_id, extraction_id |-> st.extraction_id,
     success |-> TRUE, extracted_data |-> st.parsed,
     confidence_score |-> Some(CalculateConfidenceScore(st.parsed[1])),
     processing_time |-> Some(t - st.start_time),
     error_message |-> None]

\* An exception e raised inside the try block at time t.
Raise(st, e, t) ==
    IF Caught(e)
    THEN [st EXCEPT !.pc = "Failed", !.result = Some(FailureResult(st, e, t)),
                    !.end_time = t]
    ELSE [st EXCEPT !.pc = "Raised", !.raised = Some(e), !.end_time = t]

\* A mutant of ParseResponse: the check "if extracted_data is None" is
\* missing, so a response without parsed payload is taken as parsed.
ParseResponse_unchecked(resp) ==
    IF ~resp.parsed
    THEN [ok |-> TRUE, parsed |-> None, exception |-> Exception("", "")]
    ELSE LET r == Construct("InvoiceData", resp.content)
         IN  IF r.ok
             THEN [ok |-> TRUE, parsed |-> Some(r.object),
                   exception |-> Exception("", "")]
             ELSE [ok |-> FALSE, parsed |-> None,
                   exception |-> Exception("ValidationError",
                                           "validation errors for InvoiceData")]

\* What the call makes of the model's response: message.parsed, or the
\* exception of the try block (the client validates the content as an
\* InvoiceData; the call rejects a response without parsed payload).
ParseResponse(resp) ==
    IF ~resp.parsed
    THEN [ok |-> FALSE, parsed |-> None,
          exception |-> Exception("ValueError",
                                  "Failed to parse invoice data from OpenAI response")]
    ELSE LET r == Construct("InvoiceData", resp.content)
         IN  IF r.ok
             THEN [ok |-> TRUE, parsed |-> Some(r.object),
                   exception |-> Exception("", "")]
             ELSE [ok |-> FALSE, parsed |-> None,
                   exception |-> Exception("ValidationError",
                                           "validation errors for InvoiceData")]

\* start_time = time.time(); extraction_id = f"extract_{document_id}_{int(start_time)}"
StartExtraction(c) ==
    /\ call[c].pc = "NotStarted"
    /\ \E document_id \in Documents :
          call' = [call EXCEPT ![c] =
                      [@ EXCEPT !.pc = "Started",
                                !.document_id = document_id,
                                !.start_time = now,
                                !.extraction_id =
                                    Some(<<"extract", document_id, now \div TicksPerSecond>>)]]
    /\ UNCHANGED <<uploads, now, calls, modelVars, validateVars, serviceVars>>

\* if not image_path.exists(): raise FileNotFoundError
ImageMissing(c) ==
    /\ call[c].pc = "Started"
    /\ call[c].document_id \notin uploads
    /\ call' = [call EXCEPT ![c] =
                   Raise(@, Exception("FileNotFoundError", "Image file not found"), now)]
    /\ UNCHANGED <<uploads, now, calls, modelVars, validateVars, serviceVars>>

\* image_path.read_bytes() fails
ImageUnreadable(c) ==
    /\ call[c].pc = "Started"
    /\ call[c].document_id \in uploads
    /\ call' = [call EXCEPT ![c] =
                   Raise(@, Exception("PermissionError", "Permission denied"), now)]
    /\ UNCHANGED <<uploads, now, calls, modelVars, validateVars, serviceVars>>

\* A mutant of InvokeModel: the check of image_path.exists() is missing.
InvokeModel_unchecked(c) ==
    /\ call[c].pc = "Started"
    /\ call' = [call EXCEPT ![c] = [@ EXCEPT !.pc = "ModelInvoked", !.attempts = 1]]
    /\ UNCHANGED <<uploads, now, calls, modelVars, validateVars, serviceVars>>

\* The image is read and encoded; the request is sent (the first attempt).
InvokeModel(c) ==
    /\ call[c].pc = "Started"
    /\ call[c].document_id \in uploads
    /\ call' = [call EXCEPT ![c] = [@ EXCEPT !.pc = "ModelInvoked", !.attempts = 1]]
    /\ UNCHANGED <<uploads, now, calls, modelVars, validateVars, serviceVars>>

\* A mutant of RetryModel: the client retries once more than max_retries.
RetryModel_again(c) ==
    /\ call[c].pc = "ModelInvoked"
    /\ call[c].attempts <= MaxRetries + 1
    /\ call' = [call EXCEPT ![c] = [@ EXCEPT !.attempts = @ + 1]]
    /\ UNCHANGED <<uploads, now, calls, modelVars, validateVars, serviceVars>>

\* An attempt times out or fails transiently and the client tries again.
RetryModel(c) ==
    /\ call[c].pc = "ModelInvoked"
    /\ call[c].attempts <= MaxRetries
    /\ call' = [call EXCEPT ![c] = [@ EXCEPT !.attempts = @ + 1]]
    /\ UNCHANGED <<uploads, now, calls, modelVars, validateVars, serviceVars>>

\* The last attempt times out: the client raises APITimeoutError.
ModelTimesOut(c) ==
    /\ call[c].pc = "ModelInvoked"
    /\ call[c].attempts = MaxRetries + 1
    /\ call' = [call EXCEPT ![c] =
                   Raise(@, Exception("APITimeoutError", "Request timed out."), now)]
    /\ UNCHANGED <<uploads, now, calls, modelVars, validateVars, serviceVars>>

\* The API refuses the request with an error that is not retried.
ModelRefuses(c) ==
    /\ call[c].pc = "ModelInvoked"
    /\ call' = [call EXCEPT ![c] =
                   Raise(@, Exception("BadRequestError", "Error code: 400"), now)]
    /\ UNCHANGED <<uploads, now, calls, modelVars, validateVars, serviceVars>>

\* A mutant of ModelResponds: the parsed payload is kept on the client
\* (self.extracted_data), which the calls share, so every call that waits
\* for its response takes the payload of this one.
ModelResponds_shared(c) ==
    /\ call[c].pc = "ModelInvoked"
    /\ \E resp \in Responses :
          LET r == ParseResponse(resp)
              Got(st) == [st EXCEPT !.response = IF resp.parsed THEN "payload"
                                                 ELSE "no payload"]
          IN  call' = [o \in DOMAIN call |->
                          IF call[o].pc /= "ModelInvoked" THEN call[o]
                          ELSE IF r.ok
                          THEN [Got(call[o]) EXCEPT !.pc = "Parsed", !.parsed = r.parsed]
                          ELSE Raise(Got(call[o]), r.exception, now)]
    /\ UNCHANGED <<uploads, now, calls, modelVars, validateVars, serviceVars>>

\* The API answers: extracted_data = response.choices[0].message.parsed,
\* and a response without parsed payload raises ValueError.
ModelResponds(c) ==
    /\ call[c].pc = "ModelInvoked"
    /\ \E resp \in Responses :
          LET r == ParseResponse(resp)
              st == [call[c] EXCEPT !.response = IF resp.parsed THEN "payload" ELSE "no payload"]
          IN  call' = [call EXCEPT ![c] =
                          IF r.ok THEN [st EXCEPT !.pc = "Parsed", !.parsed = r.parsed]
                          ELSE Raise(st, r.exception, now)]
    /\ UNCHANGED <<uploads, now, calls, modelVars, validateVars, serviceVars>>

\* processing_time, the confidence score and the returned ExtractionResult.
\* ExtractionResult checks 0 <= confidence_score <= 1; a failure of that
\* check, or of reading a payload that is None, is raised inside the try.
ReturnSuccess(c) ==
    /\ call[c].pc = "Parsed"
    /\ LET st == call[c]
       IN  call' = [call EXCEPT ![c] =
                IF st.parsed = None
                THEN Raise(st, Exception("AttributeError",
                                         "'NoneType' object has no attribute"), now)
                ELSE IF CalculateConfidenceScore(st.parsed[1]) > 10
                THEN Raise(st, Exception("ValidationError",
                                         "validation error for ExtractionResult"), now)
                ELSE [st EXCEPT !.pc = "Succeeded",
                                !.result = Some(SuccessResult(st, now)),
                                !.end_time = now]]
    /\ UNCHANGED <<uploads, now, calls, modelVars, validateVars, serviceVars>>

\* Time passes.
Tick ==
    /\ now < MaxClock
    /\ now' = now + 1
    /\ UNCHANGED <<uploads, calls, call, modelVars, validateVars, serviceVars>>

\* One extract_invoice_data call; any set of the documents is uploaded.
InitExtract ==
    /\ ModelInit
    /\ ValidateIdle
    /\ ServiceIdle
    /\ uploads \in SUBSET Documents
    /\ now = 0
    /\ calls = {"call1"}
    /\ call = [c \in calls |-> NotStarted]

NextExtract ==
    \/ Tick
    \/ \E c \in calls : StartExtraction(c)
    \/ \E c \in calls : ImageMissing(c)
    \/ \E c \in calls : ImageUnreadable(c)
    \/ \E c \in calls : InvokeModel(c)
    \/ \E c \in calls : RetryModel(c)
    \/ \E c \in calls : ModelTimesOut(c)
    \/ \E c \in calls : ModelRefuses(c)
    \/ \E c \in calls : ModelResponds(c)
    \/ \E c \in calls : ReturnSuccess(c)

SpecExtract == InitExtract /\ [][NextExtract]_vars

\* The steps of the calls.  The event loop runs a coroutine that can go
\* on, and every attempt ends (by a response, an error or the timeout), so
\* a call that can take a step eventually takes one.
CallSteps ==
    \E c \in calls :
        \/ StartExtraction(c) \/ ImageMissing(c) \/ ImageUnreadable(c)
        \/ InvokeModel(c) \/ RetryModel(c) \/ ModelTimesOut(c)
        \/ ModelRefuses(c) \/ ModelResponds(c) \/ ReturnSuccess(c)

SpecExtractFair == SpecExtract /\ WF_vars(CallSteps)

\* Two extract_invoice_data calls in flight at once (two requests served by
\* two threads, each with its own client and event loop); their steps
\* interleave in any order.
InitConcurrent ==
    /\ ModelInit
    /\ ValidateIdle
    /\ ServiceIdle
    /\ uploads \in SUBSET Documents
    /\ now = 0
    /\ calls = {"call1", "call2"}
    /\ call = [c \in calls |-> NotStarted]

NextConcurrent ==
    \/ \E c \in calls : StartExtraction(c)
    \/ \E c \in calls : ImageMissing(c)
    \/ \E c \in calls : ImageUnreadable(c)
    \/ \E c \in calls : InvokeModel(c)
    \/ \E c \in calls : RetryModel(c)
    \/ \E c \in calls : ModelTimesOut(c)
    \/ \E c \in calls : ModelRefuses(c)
    \/ \E c \in calls : ModelResponds(c)
    \/ \E c \in calls : ReturnSuccess(c)

SpecConcurrent == InitConcurrent /\ [][NextConcurrent]_vars

\* Two extract_invoice_data calls, at the same time or one after the
\* other, up to the point where the image is looked for; time passes.
InitRepeated ==
    /\ ModelInit
    /\ ValidateIdle
    /\ ServiceIdle
    /\ uploads \in SUBSET Documents
    /\ now = 0
    /\ calls = {"call1", "call2"}
    /\ call = [c \in calls |-> NotStarted]

NextRepeated ==
    \/ Tick
    \/ \E c \in calls : StartExtraction(c)
    \/ \E c \in calls : ImageMissing(c)

SpecRepeated == InitRepeated /\ [][NextRepeated]_vars

(***************************************************************************)
(* OpenAIClient.validate_extraction.  Its argument may have been built     *)
(* without validation, so an amount is either an exact number or a value   *)
(* that is no number (a str), on which the arithmetic raises TypeError.    *)
(* A message is its kind, followed by the values it names.                 *)
(***************************************************************************)
\* The literal 0.01 of the four comparisons
ValidationTolerance == 1

Decimal(n) == [type |-> "Decimal", value |-> n]

Malformed == [type |-> "str", value |-> 0]

IsNumber(x) == x.type = "Decimal"

\* An InvoiceData object of the model above, as validate_extraction sees it.
AsValidated(d) ==
    [invoice_number |-> d.invoice_number, customer_name |-> d.customer_name,
     items |-> [i \in 1..Len(d.items) |->
                   [description |-> d.items[i].description,
                    quantity |-> d.items[i].quantity,
                    unit_price |-> Decimal(d.items[i].unit_price),
                    total |-> Decimal(d.items[i].total)]],
     subtotal |-> Decimal(d.subtotal), tax_rate |-> Decimal(d.tax_rate),
     tax |-> Decimal(d.tax), total |-> Decimal(d.total)]

\* A mutant of ValidationResults: the report is a dict shared by the calls,
\* so a call starts from what the call before it returned.
ValidationResults_shared(earlier) ==
    IF earlier = None
    THEN [is_valid |-> TRUE, warnings |-> <<>>, errors |-> <<>>, suggestions |-> <<>>]
    ELSE earlier[1]

\* validation_results = {"is_valid": True, "warnings": [], ...}: a new
\* report for every call, whatever the earlier calls returned.
ValidationResults(earlier) ==
    [is_valid |-> TRUE, warnings |-> <<>>, errors |-> <<>>, suggestions |-> <<>>]

\* validation_results["warnings"].append(m)
Warning(r, m) == [r EXCEPT !.warnings = Append(@, m)]

\* A mutant of Error: the error is recorded and is_valid is left as it is.
Error_unflagged(r, m) == [r EXCEPT !.errors = Append(@, m)]

\* validation_results["errors"].append(m); validation_results["is_valid"] = False
Error(r, m) == [r EXCEPT !.errors = Append(@, m), !.is_valid = FALSE]

\* A step of the try block: the report so far, and whether it raised.
Passed(r) == [report |-> r, raised |-> FALSE]

Raised(r) == [report |-> r, raised |-> TRUE]

\* f"{x:.2f}" of x = n / RateOne cents: rounded half to even, in cents.
RoundHalfEven(n) ==
    LET q == n \div RateOne
        rest == n % RateOne
    IN  IF 2 * rest > RateOne \/ (2 * rest = RateOne /\ q % 2 = 1) THEN q + 1 ELSE q

RECURSIVE AllTotalsNumbers(_)
AllTotalsNumbers(items) ==
    items = <<>> \/ (IsNumber(Head(items).total) /\ AllTotalsNumbers(Tail(items)))

RECURSIVE SumOfTotals(_)
SumOfTotals(items) ==
    IF items = <<>> THEN 0 ELSE Head(items).total.value + SumOfTotals(Tail(items))

\* calculated_subtotal = sum(item.total for item in items), against subtotal
CheckSubtotal(d, r) ==
    IF ~AllTotalsNumbers(d.items) \/ ~IsNumber(d.subtotal) THEN Raised(r)
    ELSE LET calculated_subtotal == SumOfTotals(d.items)
         IN  IF Abs(calculated_subtotal - d.subtotal.value) > ValidationTolerance
             THEN Passed(Warning(r, <<"Subtotal mismatch", calculated_subtotal,
                                      d.subtotal.value>>))
             ELSE Passed(r)

\* A mutant of CheckTax: the tolerance is the 1.00 of construction.
CheckTax_lenient(d, r) ==
    IF ~IsNumber(d.tax_rate) \/ ~IsNumber(d.tax) THEN Raised(r)
    ELSE LET calculated_tax == d.subtotal.value * d.tax_rate.value
         IN  IF Abs(calculated_tax - d.tax.value * RateOne) > TaxTolerance * RateOne
             THEN Passed(Warning(r, <<"Tax calculation mismatch",
                                      RoundHalfEven(calculated_tax), d.tax.value>>))
             ELSE Passed(r)

\* calculated_tax = subtotal * tax_rate, against tax
CheckTax(d, r) ==
    IF ~IsNumber(d.tax_rate) \/ ~IsNumber(d.tax) THEN Raised(r)
    ELSE LET calculated_tax == d.subtotal.value * d.tax_rate.value
         IN  IF Abs(calculated_tax - d.tax.value * RateOne) > ValidationTolerance * RateOne
             THEN Passed(Warning(r, <<"Tax calculation mismatch",
                                      RoundHalfEven(calculated_tax), d.tax.value>>))
             ELSE Passed(r)

\* calculated_total = subtotal + tax, against total
CheckTotal(d, r) ==
    IF ~IsNumber(d.total) THEN Raised(r)
    ELSE LET calculated_total == d.subtotal.value + d.tax.value
         IN  IF Abs(calculated_total - d.total.value) > ValidationTolerance
             THEN Passed(Error(r, <<"Total mismatch", calculated_total, d.total.value>>))
             ELSE Passed(r)

RECURSIVE CheckLines(_, _, _)
\* for i, item in enumerate(items): quantity * unit_price, against total
CheckLines(d, r, i) ==
    IF i > Len(d.items) THEN Passed(r)
    ELSE LET it == d.items[i]
         IN  IF ~IsNumber(it.unit_price) \/ ~IsNumber(it.total) THEN Raised(r)
             ELSE LET calculated_line_total == it.quantity * it.unit_price.value
                  IN  CheckLines(d,
                         IF Abs(calculated_line_total - it.total.value) > ValidationTolerance
                         THEN Warning(r, <<"Line total mismatch", i, calculated_line_total,
                                           it.total.value>>)
                         ELSE r,
                         i + 1)

\* A mutant of CheckMissing: the check of the item list is missing.
CheckMissing_items(d, r) ==
    LET r1 == IF d.invoice_number = "" THEN Error(r, <<"Missing invoice number">>) ELSE r
        r2 == IF d.customer_name = "" THEN Error(r1, <<"Missing customer name">>) ELSE r1
    IN  Passed(r2)

\* Check for missing critical data
CheckMissing(d, r) ==
    LET r1 == IF d.invoice_number = "" THEN Error(r, <<"Missing invoice number">>) ELSE r
        r2 == IF d.customer_name = "" THEN Error(r1, <<"Missing customer name">>) ELSE r1
        r3 == IF d.items = <<>> THEN Error(r2, <<"No invoice items found">>) ELSE r2
    IN  Passed(r3)

\* The try block: the checks in order, up to the first that raises.
TryBlock(d, r) ==
    LET s1 == CheckSubtotal(d, r)
        s2 == IF s1.raised THEN s1 ELSE CheckTax(d, s1.report)
        s3 == IF s2.raised THEN s2 ELSE CheckTotal(d, s2.report)
        s4 == IF s3.raised THEN s3 ELSE CheckLines(d, s3.report, 1)
    IN  IF s4.raised THEN s4 ELSE CheckMissing(d, s4.report)

\* A mutant of ValidationCaught: the clause reads "except ValueError".
ValidationCaught_ValueError(e) == e.type = "ValueError"

\* except Exception as e: the TypeError of the try block is caught.
ValidationCaught(e) == TRUE

\* validate_extraction(d): the report it returns, or the exception that leaves it.
ValidateExtraction(d, earlier) ==
    LET s == TryBlock(d, ValidationResults(earlier))
        e == Exception("TypeError", "unsupported operand type(s)")
    IN  IF ~s.raised THEN [returned |-> TRUE, report |-> s.report]
        ELSE IF ValidationCaught(e)
        THEN [returned |-> TRUE, report |-> Error(s.report, <<"Validation error">>)]
        ELSE [returned |-> FALSE, report |-> s.report]

\* The objects validate_extraction is given in the model.
ValidatedItemChoices ==
    {[description |-> "Widget", quantity |-> 1,
      unit_price |-> Decimal(7000), total |-> Decimal(7000)],
     [description |-> "", quantity |-> 3,
      unit_price |-> Decimal(1000), total |-> Decimal(3000)],
     [description |-> "Widget", quantity |-> 3,
      unit_price |-> Decimal(1000), total |-> Decimal(3100)],
     [description |-> "Widget", quantity |-> 1,
      unit_price |-> Malformed, total |-> Decimal(1000)]}

ValidatedInputs ==
    [invoice_number : {"", "INV-1"}, customer_name : {"", "ACME"},
     items : UNION {[1..n -> ValidatedItemChoices] : n \in 0..MaxItems},
     subtotal : {Decimal(0), Decimal(10000), Decimal(10001), Decimal(10002), Malformed},
     tax_rate : {Decimal(0), Decimal(8), Malformed},
     tax : {Decimal(0), Decimal(799), Decimal(800), Decimal(801), Malformed},
     total : {Decimal(0), Decimal(10800), Decimal(10801), Decimal(10802), Malformed}]

\* await openai_client.validate_extraction(subject)
Validate ==
    /\ subject /= None
    /\ LET v == ValidateExtraction(subject[1], report)
       IN  /\ report' = IF v.returned THEN Some(v.report) ELSE None
           /\ escaped' = ~v.returned
    /\ previous' = report
    /\ UNCHANGED <<subject, modelVars, extractVars, serviceVars>>

InitValidate ==
    /\ ModelInit
    /\ ExtractIdle
    /\ ServiceIdle
    /\ subject \in {Some(d) : d \in ValidatedInputs}
    /\ report = None
    /\ previous = None
    /\ escaped = FALSE

NextValidate == Validate

SpecValidate == InitValidate /\ [][NextValidate]_vars

(***************************************************************************)
(* CSVDataManager: invoices.csv holds one header row per saved invoice and *)
(* invoice_details.csv one detail row per line item.  A Python value is a  *)
(* str, a float, an int or NaN; a cell of a file is text, and the type of  *)
(* a column is what pandas.read_csv infers from the text of its cells.     *)
(***************************************************************************)
Str(s) == [str |-> s]

\* float(x) of an exact amount x: on amounts of this size the nearest
\* double determines the amount, and its text in the file reads back as
\* the same double.
Float(n) == [float |-> n]

PyInt(n) == [int |-> n]

NaN == [nan |-> TRUE]

\* id: str = Field(default_factory=lambda: str(uuid.uuid4())): the n-th
\* invoice constructed takes the n-th id, and so do its items.
InvoiceIdTexts == <<"id-1", "id-2", "id-3", "id-4">>

ItemIdTexts ==
    <<<<"id-1-1", "id-1-2", "id-1-3">>, <<"id-2-1", "id-2-2", "id-2-3">>,
      <<"id-3-1", "id-3-2", "id-3-3">>, <<"id-4-1", "id-4-2", "id-4-3">>>>

\* The InvoiceData object d with the ids its construction drew.
WithIds(d, n) ==
    [k \in DOMAIN d \cup {"id"} |->
        IF k = "id" THEN InvoiceIdTexts[n]
        ELSE IF k = "items"
        THEN [i \in 1..Len(d.items) |->
                 [j \in DOMAIN d.items[i] \cup {"id"} |->
                     IF j = "id" THEN ItemIdTexts[n][i] ELSE d.items[i][j]]]
        ELSE d[k]]

\* datetime.isoformat()
Isoformat(dt) ==
    CASE dt = "2024-01-15" -> "2024-01-15T00:00:00"
      [] dt = "2024-02-29" -> "2024-02-29T00:00:00"

\* A mutant of to_csv_header: the header carries the invoice number as id.
InvoiceData_to_csv_header_number(self) ==
    [id |-> Str(self.invoice_number),
     invoice_number |-> Str(self.invoice_number),
     invoice_date |-> Str(IF self.invoice_date /= None
                          THEN Isoformat(self.invoice_date[1]) ELSE ""),
     customer_name |-> Str(self.customer_name),
     billing_street |-> Str(self.billing_address.street),
     billing_city |-> Str(self.billing_address.city),
     subtotal |-> Float(self.subtotal),
     tax_rate |-> Float(self.tax_rate),
     tax_amount |-> Float(self.tax),
     total_amount |-> Float(self.total)]

\* InvoiceData.to_csv_header: the flattened header record.
InvoiceData_to_csv_header(self) ==
    [id |-> Str(self.id),
     invoice_number |-> Str(self.invoice_number),
     invoice_date |-> Str(IF self.invoice_date /= None
                          THEN Isoformat(self.invoice_date[1]) ELSE ""),
     customer_name |-> Str(self.customer_name),
     billing_street |-> Str(self.billing_address.street),
     billing_city |-> Str(self.billing_address.city),
     subtotal |-> Float(self.subtotal),
     tax_rate |-> Float(self.tax_rate),
     tax_amount |-> Float(self.tax),
     total_amount |-> Float(self.total)]

\* InvoiceData.to_csv_details: one detail record per line item, in order.
InvoiceData_to_csv_details(self) ==
    [i \in 1..Len(self.items) |->
        [id |-> Str(self.items[i].id),
         invoice_id |-> Str(self.id),
         description |-> Str(self.items[i].description),
         quantity |-> PyInt(self.items[i].quantity),
         unit_price |-> Float(self.items[i].unit_price),
         line_total |-> Float(self.items[i].total)]]

\* The strings of the model that read_csv takes for an integer, with the
\* integer it reads; every other string of the model holds a character
\* that is no digit.
IntegerTexts == ("00123" :> 123) @@ ("42" :> 42) @@ ("123" :> 123)

\* str(n) of the integers above: the text without leading zeros.
CanonicalText == (123 :> "123") @@ (42 :> "42")

\* The strings of the model that read_csv takes for a float, and str(x) of
\* these floats.
FloatTexts == ("123.0" :> 123) @@ ("42.0" :> 42)

FloatText == (123 :> "123.0") @@ (42 :> "42.0")

\* DataFrame.to_csv: the text of a value.  A number is written as its
\* digits, with a decimal point when it is a float; a str as its
\* characters, so that the str "42" and the int 42 give the same text;
\* NaN as the empty text.
ToCsv(v) ==
    IF "nan" \in DOMAIN v THEN [chars |-> ""]
    ELSE IF "float" \in DOMAIN v THEN [number |-> v.float, point |-> TRUE]
    ELSE IF "int" \in DOMAIN v THEN [number |-> v.int, point |-> FALSE]
    ELSE IF v.str \in DOMAIN FloatTexts
    THEN [number |-> FloatTexts[v.str], point |-> TRUE]
    ELSE IF v.str \in DOMAIN IntegerTexts /\ CanonicalText[IntegerTexts[v.str]] = v.str
    THEN [number |-> IntegerTexts[v.str], point |-> FALSE]
    ELSE [chars |-> v.str]

RowToCsv(row) == [k \in DOMAIN row |-> ToCsv(row[k])]

\* The characters of a cell.
CellText(cell) ==
    IF "chars" \in DOMAIN cell THEN cell.chars
    ELSE IF cell.point THEN FloatText[cell.number]
    ELSE CanonicalText[cell.number]

\* The strings read_csv takes for a missing value (its default na_values).
NATexts == {"", "NA", "N/A", "NULL", "NaN", "None", "n/a", "nan", "null"}

IsNA(cell) == "chars" \in DOMAIN cell /\ cell.chars \in NATexts

IsNumeric(cell) ==
    "number" \in DOMAIN cell \/ ("chars" \in DOMAIN cell /\ cell.chars \in DOMAIN IntegerTexts)

\* The columns of a file are those of its header line; a line with fewer
\* fields than the header line is read with its last fields missing.  (A
\* file whose lines were all deleted keeps no column in the model.)
Columns(rows) == UNION {DOMAIN rows[i] : i \in 1..Len(rows)}

Cell(row, f) == IF f \in DOMAIN row THEN row[f] ELSE [chars |-> ""]

\* The type read_csv infers for a column: numeric when every cell that is
\* not missing reads as a number, else object (str); a numeric column is
\* float64 when a cell is missing or holds a decimal point, else int64.
ColumnIsNumeric(rows, f) ==
    \A i \in 1..Len(rows) : IsNA(Cell(rows[i], f)) \/ IsNumeric(Cell(rows[i], f))

ColumnIsFloat(rows, f) ==
    \E i \in 1..Len(rows) :
        LET cell == Cell(rows[i], f)
        IN  IsNA(cell) \/ ("number" \in DOMAIN cell /\ cell.point)

\* The value read from a cell of a column of that type.
ReadCell(cell, numeric, float) ==
    IF IsNA(cell) THEN NaN
    ELSE IF ~numeric THEN Str(CellText(cell))
    ELSE LET n == IF "number" \in DOMAIN cell THEN cell.number
                  ELSE IntegerTexts[cell.chars]
         IN  IF float THEN Float(n) ELSE PyInt(n)

\* pd.read_csv(file): one record per line, over the columns of the file.
ReadFrame(rows) ==
    [i \in 1..Len(rows) |->
        [f \in Columns(rows) |->
            ReadCell(Cell(rows[i], f), ColumnIsNumeric(rows, f), ColumnIsFloat(rows, f))]]

\* df.to_csv(file, index=False): every record is written over all columns.
WriteFrame(df) == [i \in 1..Len(df) |-> RowToCsv(df[i])]

\* pd.read_csv(file).to_dict('records') after fillna(defaults)
ReadCsv(rows, defaults) ==
    LET df == ReadFrame(rows)
    IN  [i \in 1..Len(df) |->
            [f \in DOMAIN df[i] |->
                IF df[i][f] = NaN /\ f \in DOMAIN defaults THEN defaults[f] ELSE df[i][f]]]

\* The fillna defaults of the two tables.
InvoiceDefaults ==
    [customer_name |-> Str(""), billing_street |-> Str(""), billing_city |-> Str(""),
     subtotal |-> Float(0), tax_rate |-> Float(0), tax_amount |-> Float(0),
     total_amount |-> Float(0), updated_at |-> Str("")]

DetailDefaults ==
    [description |-> Str(""), quantity |-> PyInt(0), unit_price |-> Float(0),
     line_total |-> Float(0)]

\* CSVDataManager.load_existing_data
LoadExistingData(st) ==
    [invoices |-> ReadCsv(st.invoices, InvoiceDefaults),
     details |-> ReadCsv(st.details, DetailDefaults)]

\* CSVDataManager.get_all_invoices: every header with its detail rows.
GetAllInvoices(st) ==
    LET data == LoadExistingData(st)
    IN  [i \in 1..Len(data.invoices) |->
            LET inv == data.invoices[i]
            IN  [k \in DOMAIN inv \cup {"items"} |->
                    IF k = "items"
                    THEN SelectSeq(data.details, LAMBDA detail : detail.invoice_id = inv.id)
                    ELSE inv[k]]]

\* CSVDataManager.get_invoice_by_id: the first invoice with that id, or None.
GetInvoiceById(st, invoice_id) ==
    LET all_invoices == GetAllInvoices(st)
        hits == {i \in 1..Len(all_invoices) : all_invoices[i].id = Str(invoice_id)}
    IN  IF hits = {} THEN None
        ELSE Some(all_invoices[CHOOSE i \in hits : \A j \in hits : i <= j])

\* The points at which a save can fail: nowhere, before the header is
\* written, or after the header and before the details are written.
SaveFaults == {"none", "header", "details"}

\* CSVDataManager.save_extracted_invoice: the header row is appended to
\* invoices.csv, then the detail rows to invoice_details.csv; any failure
\* is raised as DataStorageError.
SaveExtractedInvoice(st, invoice_data, fault) ==
    LET header_data == InvoiceData_to_csv_header(invoice_data)
        details_data == InvoiceData_to_csv_details(invoice_data)
        headers == Append(st.invoices, RowToCsv(header_data))
        details == st.details \o [i \in 1..Len(details_data) |-> RowToCsv(details_data[i])]
        error == Exception("DataStorageError", "Failed to save invoice: ")
    IN  IF fault = "header"
        THEN [store |-> st, raised |-> Some(error), value |-> None]
        ELSE IF fault = "details"
        THEN [store |-> [st EXCEPT !.invoices = headers],
              raised |-> Some(error), value |-> None]
        ELSE [store |-> [invoices |-> headers, details |-> details],
              raised |-> None, value |-> Some(invoice_data.id)]

(***************************************************************************)
(* POST /extract/<document_id> (extract_document_data).  The handler finds *)
(* the uploaded file, runs the extraction to its end, validates the        *)
(* extracted invoice, saves it and answers.  Every exception raised on the *)
(* way is answered by the handler's except clause.                         *)
(***************************************************************************)
\* extract_invoice_data(file_path, document_id), run to its end at time t:
\* the results it can return, by what the try block meets.
ExtractInvoiceData(document_id, t) ==
    LET st == [NotStarted EXCEPT
                  !.pc = "Started", !.document_id = document_id, !.start_time = t,
                  !.extraction_id = Some(<<"extract", document_id, t \div TicksPerSecond>>)]
        failures == {Exception("PermissionError", "Permission denied"),
                     Exception("APITimeoutError", "Request timed out."),
                     Exception("BadRequestError", "Error code: 400")}
    IN  IF document_id \notin uploads
        THEN {FailureResult(st, Exception("FileNotFoundError", "Image file not found"), t)}
        ELSE {FailureResult(st, e, t) : e \in failures}
             \cup {LET r == ParseResponse(resp)
                   IN  IF r.ok THEN SuccessResult([st EXCEPT !.parsed = r.parsed], t)
                       ELSE FailureResult(st, r.exception, t) : resp \in Responses}

\* extracted_data.model_dump(): the fields of the object, as a dict.
ModelDump(d) ==
    [k \in DOMAIN d |->
        IF k = "items"
        THEN [i \in 1..Len(d.items) |-> [j \in DOMAIN d.items[i] |-> d.items[i][j]]]
        ELSE d[k]]

\* jsonify({...}), status
JsonResponse(status, success, error, message, data) ==
    [status |-> status, success |-> success, error |-> error, message |-> message,
     data |-> data]

\* The answer of the handler's except clause to the exception e.
ExtractionError(e) ==
    JsonResponse(500, FALSE, Some("Extraction failed"), Some(e.text), None)

\* A mutant of ExtractionSaved: the answer is a success only when the
\* validation report is valid.
ExtractionSaved_blocking(h, invoice_id, invoice_data) ==
    JsonResponse(200, h.validation_results[1].is_valid, None, None,
                 Some([extraction_id |-> h.extraction_result[1].extraction_id,
                       invoice_id |-> invoice_id,
                       invoice_data |-> invoice_data,
                       confidence_score |-> h.extraction_result[1].confidence_score,
                       processing_time |-> h.extraction_result[1].processing_time,
                       validation_results |-> h.validation_results[1]]))

\* The answer after the save: success, with the validation report.
ExtractionSaved(h, invoice_id, invoice_data) ==
    JsonResponse(200, TRUE, None, None,
                 Some([extraction_id |-> h.extraction_result[1].extraction_id,
                       invoice_id |-> invoice_id,
                       invoice_data |-> invoice_data,
                       confidence_score |-> h.extraction_result[1].confidence_score,
                       processing_time |-> h.extraction_result[1].processing_time,
                       validation_results |-> h.validation_results[1]]))

Received(document_id, api_key) ==
    [pc |-> "Received", document_id |-> document_id, api_key |-> api_key,
     extraction_result |-> None, validation_results |-> None, save_raised |-> None,
     response |-> None]

\* matching_files is empty: 404
ExtractNotFound ==
    /\ handler.pc = "Received"
    /\ handler.document_id \notin uploads
    /\ handler' = [handler EXCEPT
           !.pc = "Responded",
           !.response = Some(JsonResponse(404, FALSE, Some("Document not found"),
                                          Some("No uploaded document found"), None))]
    /\ UNCHANGED <<batch, storeVars, scoreVars, modelVars, extractVars, validateVars>>

\* OpenAIClient(api_key=...) raises ValueError when the key is not configured.
ExtractNoClient ==
    /\ handler.pc = "Received"
    /\ handler.document_id \in uploads
    /\ ~handler.api_key
    /\ handler' = [handler EXCEPT
           !.pc = "Responded",
           !.response = Some(ExtractionError(
                                Exception("ValueError", "OpenAI API key is required")))]
    /\ UNCHANGED <<batch, storeVars, scoreVars, modelVars, extractVars, validateVars>>

\* extraction_result = asyncio.run(extract_invoice_data(...)); a failed
\* extraction is answered with its error message.
ExtractRun ==
    /\ handler.pc = "Received"
    /\ handler.document_id \in uploads
    /\ handler.api_key
    /\ \E result \in ExtractInvoiceData(handler.document_id, now) :
          handler' = [handler EXCEPT
              !.extraction_result = Some(result),
              !.pc = IF result.success THEN "Extracted" ELSE "Responded",
              !.response = IF result.success THEN None
                           ELSE Some(JsonResponse(500, FALSE, Some("Extraction failed"),
                                                  result.error_message, None))]
    /\ UNCHANGED <<batch, storeVars, scoreVars, modelVars, extractVars, validateVars>>

\* validation_results = validate_extraction(InvoiceData(**extracted_data))
ExtractValidate ==
    /\ handler.pc = "Extracted"
    /\ LET r == Construct("InvoiceData", ModelDump(handler.extraction_result[1].extracted_data[1]))
       IN  handler' =
              IF ~r.ok
              THEN [handler EXCEPT
                      !.pc = "Responded",
                      !.response = Some(ExtractionError(
                          Exception("ValidationError", "validation errors for InvoiceData")))]
              ELSE [handler EXCEPT
                      !.pc = "Validated",
                      !.validation_results =
                          Some(ValidateExtraction(AsValidated(r.object), None).report)]
    /\ UNCHANGED <<batch, storeVars, scoreVars, modelVars, extractVars, validateVars>>

\* invoice_id = data_manager.save_extracted_invoice(InvoiceData(**extracted_data)),
\* then the answer; a DataStorageError is answered by the except clause.
ExtractSave ==
    /\ handler.pc = "Validated"
    /\ \E fault \in SaveFaults :
          LET d == handler.extraction_result[1].extracted_data[1]
              invoice_data == WithIds(Construct("InvoiceData", ModelDump(d)).object,
                                      Len(store.invoices) + 1)
              outcome == SaveExtractedInvoice(store, invoice_data, fault)
          IN  /\ store' = outcome.store
              /\ saved' = IF outcome.raised = None THEN Append(saved, invoice_data)
                          ELSE saved
              /\ handler' = [handler EXCEPT
                     !.pc = "Responded",
                     !.save_raised = outcome.raised,
                     !.response =
                         IF outcome.raised /= None
                         THEN Some(ExtractionError(outcome.raised[1]))
                         ELSE Some(ExtractionSaved(handler, outcome.value[1], invoice_data))]
    /\ UNCHANGED <<batch, loaded, managerVars, scoreVars, modelVars, extractVars, validateVars>>

\* One request for any document id, with or without a configured API key;
\* any set of the documents is uploaded.
InitEndpoint ==
    /\ ModelInit
    /\ ValidateIdle
    /\ uploads \in SUBSET Documents
    /\ now \in 0..MaxClock
    /\ calls = {}
    /\ call = <<>>
    /\ handler \in {Received(d, k) : d \in Documents, k \in BOOLEAN}
    /\ batch = [pc |-> "NoRequest"]
    /\ store = [invoices |-> <<>>, details |-> <<>>]
    /\ saved = <<>>
    /\ loaded = None
    /\ ManagerIdle
    /\ scored = None
    /\ score = None

NextEndpoint ==
    \/ ExtractNotFound
    \/ ExtractNoClient
    \/ ExtractRun
    \/ ExtractValidate
    \/ ExtractSave

SpecEndpoint == InitEndpoint /\ [][NextEndpoint]_vars

(***************************************************************************)
(* POST /extract/batch (extract_batch_documents).  The documents are       *)
(* processed one after the other; each iteration has its own try block,    *)
(* and appends one entry to the result list.                               *)
(***************************************************************************)
MaxBatch == 3

\* The bodies of a batch request: one without document_ids, or a list of ids.
BatchRequests ==
    {None} \cup {Some(ids) : ids \in UNION {[1..n -> Documents] : n \in 0..MaxBatch}}

BatchReceived(body, api_key) ==
    [pc |-> "Received", body |-> body, api_key |-> api_key, index |-> 1,
     results |-> <<>>, response |-> None]

\* An entry of the result list.
BatchEntry(document_id, success, invoice_id, confidence_score, error) ==
    [document_id |-> document_id, success |-> success, invoice_id |-> invoice_id,
     confidence_score |-> confidence_score, error |-> error]

\* A mutant of BatchAppend: the entry replaces the list (results = [entry]).
BatchAppend_reset(b, entry) ==
    [b EXCEPT !.results = <<entry>>, !.index = @ + 1]

\* results.append(entry), and the loop goes on with the next id.
BatchAppend(b, entry) ==
    [b EXCEPT !.results = Append(@, entry), !.index = @ + 1]

\* len([r for r in results if r['success']])
RECURSIVE Successful(_)
Successful(results) ==
    IF results = <<>> THEN 0
    ELSE (IF Head(results).success THEN 1 ELSE 0) + Successful(Tail(results))

\* if not data or 'document_ids' not in data: 400
BatchInvalid ==
    /\ batch.pc = "Received"
    /\ batch.body = None
    /\ batch' = [batch EXCEPT
           !.pc = "Responded",
           !.response = Some(JsonResponse(400, FALSE, Some("Invalid request"),
                                          Some("document_ids array is required"), None))]
    /\ UNCHANGED <<handler, storeVars, scoreVars, modelVars, extractVars, validateVars>>

\* OpenAIClient(api_key=...) raises outside the loop: 500
BatchNoClient ==
    /\ batch.pc = "Received"
    /\ batch.body /= None
    /\ ~batch.api_key
    /\ batch' = [batch EXCEPT
           !.pc = "Responded",
           !.response = Some(JsonResponse(500, FALSE, Some("Batch extraction failed"),
                                          Some("OpenAI API key is required"), None))]
    /\ UNCHANGED <<handler, storeVars, scoreVars, modelVars, extractVars, validateVars>>

\* The clients are initialized and the loop starts.
BatchBegin ==
    /\ batch.pc = "Received"
    /\ batch.body /= None
    /\ batch.api_key
    /\ batch' = [batch EXCEPT !.pc = "Loop"]
    /\ UNCHANGED <<handler, storeVars, scoreVars, modelVars, extractVars, validateVars>>

InLoop == batch.pc = "Loop" /\ batch.index <= Len(batch.body[1])

\* if not matching_files: a failed entry, and continue
BatchDocumentNotFound ==
    /\ InLoop
    /\ LET document_id == batch.body[1][batch.index]
       IN  /\ document_id \notin uploads
           /\ batch' = BatchAppend(batch, BatchEntry(document_id, FALSE, None, None,
                                                     Some(<<"Document not found">>)))
    /\ UNCHANGED <<handler, storeVars, scoreVars, modelVars, extractVars, validateVars>>

\* A mutant of the failed iteration: the iteration saves before it looks
\* at the result, so the complete invoice of the prompt's example is
\* written for a failed extraction.
BatchDocumentFailed_saved ==
    /\ InLoop
    /\ LET document_id == batch.body[1][batch.index]
           invoice_data == WithIds(Construct("InvoiceData", CompletePayload).object,
                                   Len(store.invoices) + 1)
       IN  /\ document_id \in uploads
           /\ \E result \in ExtractInvoiceData(document_id, now) :
                 /\ ~result.success
                 /\ batch' = BatchAppend(batch, BatchEntry(document_id, FALSE, None, None,
                                                           result.error_message))
           /\ store' = SaveExtractedInvoice(store, invoice_data, "none").store
    /\ UNCHANGED <<handler, saved, loaded, managerVars, scoreVars, modelVars, extractVars,
                   validateVars>>

\* The extraction of the document fails: a failed entry with its message.
BatchDocumentFailed ==
    /\ InLoop
    /\ LET document_id == batch.body[1][batch.index]
       IN  /\ document_id \in uploads
           /\ \E result \in ExtractInvoiceData(document_id, now) :
                 /\ ~result.success
                 /\ batch' = BatchAppend(batch, BatchEntry(document_id, FALSE, None, None,
                                                           result.error_message))
    /\ UNCHANGED <<handler, storeVars, scoreVars, modelVars, extractVars, validateVars>>

\* The extraction succeeds and the invoice is saved: a success entry; a
\* save that raises is caught by the iteration's except clause.
BatchDocumentSaved ==
    /\ InLoop
    /\ LET document_id == batch.body[1][batch.index]
       IN  /\ document_id \in uploads
           /\ \E result \in ExtractInvoiceData(document_id, now), fault \in SaveFaults :
                 /\ result.success
                 /\ LET r == Construct("InvoiceData", ModelDump(result.extracted_data[1]))
                        invoice_data == WithIds(r.object, Len(store.invoices) + 1)
                        outcome == SaveExtractedInvoice(store, invoice_data, fault)
                    IN  IF ~r.ok
                        THEN /\ batch' = BatchAppend(batch,
                                    BatchEntry(document_id, FALSE, None, None,
                                               Some(<<"validation errors for InvoiceData">>)))
                             /\ UNCHANGED <<store, saved>>
                        ELSE /\ store' = outcome.store
                             /\ saved' = IF outcome.raised = None
                                         THEN Append(saved, invoice_data) ELSE saved
                             /\ batch' = BatchAppend(batch,
                                    IF outcome.raised /= None
                                    THEN BatchEntry(document_id, FALSE, None, None,
                                                    Some(<<outcome.raised[1].text>>))
                                    ELSE BatchEntry(document_id, TRUE, outcome.value,
                                                    result.confidence_score, None))
    /\ UNCHANGED <<handler, loaded, managerVars, scoreVars, modelVars, extractVars, validateVars>>

\* The loop is over: the results and the summary.
BatchRespond ==
    /\ batch.pc = "Loop"
    /\ batch.index > Len(batch.body[1])
    /\ LET successful == Successful(batch.results)
           total == Len(batch.results)
       IN  batch' = [batch EXCEPT
               !.pc = "Responded",
               !.response = Some(JsonResponse(200, TRUE, None, None,
                   Some([results |-> batch.results,
                         summary |-> [total_processed |-> total,
                                      successful |-> successful,
                                      failed |-> total - successful]])))]
    /\ UNCHANGED <<handler, storeVars, scoreVars, modelVars, extractVars, validateVars>>

InitBatch ==
    /\ ModelInit
    /\ ValidateIdle
    /\ uploads \in SUBSET Documents
    /\ now = 0
    /\ calls = {}
    /\ call = <<>>
    /\ handler = [pc |-> "NoRequest"]
    /\ batch \in {BatchReceived(body, k) : body \in BatchRequests, k \in BOOLEAN}
    /\ store = [invoices |-> <<>>, details |-> <<>>]
    /\ saved = <<>>
    /\ loaded = None
    /\ ManagerIdle
    /\ scored = None
    /\ score = None

NextBatch ==
    \/ BatchInvalid
    \/ BatchNoClient
    \/ BatchBegin
    \/ BatchDocumentNotFound
    \/ BatchDocumentFailed
    \/ BatchDocumentSaved
    \/ BatchRespond

SpecBatch == InitBatch /\ [][NextBatch]_vars

\* Both extraction endpoints: one request, of either kind.
InitService == InitEndpoint \/ InitBatch

NextService ==
    \/ ExtractNotFound
    \/ ExtractNoClient
    \/ ExtractRun
    \/ ExtractValidate
    \/ ExtractSave
    \/ BatchInvalid
    \/ BatchNoClient
    \/ BatchBegin
    \/ BatchDocumentNotFound
    \/ BatchDocumentFailed
    \/ BatchDocumentSaved
    \/ BatchRespond

SpecService == InitService /\ [][NextService]_vars

(***************************************************************************)
(* _calculate_confidence_score as a function of its argument.  The         *)
(* argument is any object with the fields of an InvoiceData (the method    *)
(* does not validate it), so its item list may be empty and its tax rate   *)
(* negative.                                                               *)
(***************************************************************************)
DescribedItem == [description |-> "Widget", quantity |-> 1, unit_price |-> 7000, total |-> 7000]

UndescribedItem == [description |-> "", quantity |-> 3, unit_price |-> 1000, total |-> 3000]

ScoreInputs ==
    [invoice_number : {"", "INV-1"}, invoice_date : {None, Some("2024-01-15")},
     customer_name : {"", "ACME"},
     billing_address : [street : {"", "1 Main St"}, city : {"", "Springfield"}],
     items : {<<>>, <<DescribedItem>>, <<UndescribedItem>>},
     subtotal : {0, 10000}, tax_rate : {-1, 0, 8}, tax : {0}, total : {0, 10800}]

\* The completeness signals, and whether the object d shows them.
Signals ==
    {"invoice_number", "customer_name", "items", "billing_address", "subtotal",
     "total", "invoice_date", "descriptions"}

Present(d, s) ==
    CASE s = "invoice_number" -> d.invoice_number /= ""
      [] s = "customer_name" -> d.customer_name /= ""
      [] s = "items" -> d.items /= <<>>
      [] s = "billing_address" ->
            d.billing_address.street /= "" /\ d.billing_address.city /= ""
      [] s = "subtotal" -> d.subtotal > 0
      [] s = "total" -> d.total > 0
      [] s = "invoice_date" -> d.invoice_date /= None
      [] s = "descriptions" -> \A i \in 1..Len(d.items) : d.items[i].description /= ""

\* The objects that differ from d in showing the signal s.
WithSignal(d, s) ==
    CASE s = "invoice_number" -> {[d EXCEPT !.invoice_number = "INV-1"]}
      [] s = "customer_name" -> {[d EXCEPT !.customer_name = "ACME"]}
      [] s = "items" -> {[d EXCEPT !.items = <<DescribedItem>>],
                         [d EXCEPT !.items = <<UndescribedItem>>]}
      [] s = "billing_address" ->
            {[d EXCEPT !.billing_address = [street |-> "1 Main St", city |-> "Springfield"]]}
      [] s = "subtotal" -> {[d EXCEPT !.subtotal = 10000]}
      [] s = "total" -> {[d EXCEPT !.total = 10800]}
      [] s = "invoice_date" -> {[d EXCEPT !.invoice_date = Some("2024-01-15")]}
      [] s = "descriptions" ->
            {[d EXCEPT !.items = [i \in 1..Len(d.items) |->
                                     [d.items[i] EXCEPT !.description = "Widget"]]]}

\* confidence_score = self._calculate_confidence_score(response, extracted_data)
Score ==
    /\ scored /= None
    /\ score' = Some(CalculateConfidenceScore(scored[1]))
    /\ UNCHANGED <<scored, endpointVars, storeVars, modelVars, extractVars, validateVars>>

\* The same object with one more signal is scored.
ScoreWithSignal ==
    /\ scored /= None
    /\ score /= None
    /\ \E s \in Signals :
          /\ ~Present(scored[1], s)
          /\ \E d \in WithSignal(scored[1], s) :
                /\ scored' = Some(d)
                /\ score' = Some(CalculateConfidenceScore(d))
    /\ UNCHANGED <<endpointVars, storeVars, modelVars, extractVars, validateVars>>

InitScore ==
    /\ ModelInit
    /\ ExtractIdle
    /\ ValidateIdle
    /\ handler = [pc |-> "NoRequest"]
    /\ batch = [pc |-> "NoRequest"]
    /\ store = [invoices |-> <<>>, details |-> <<>>]
    /\ saved = <<>>
    /\ loaded = None
    /\ ManagerIdle
    /\ scored \in {Some(d) : d \in ScoreInputs}
    /\ score = None

NextScore == Score \/ ScoreWithSignal

SpecScore == InitScore /\ [][NextScore]_vars

(***************************************************************************)
(* The storage on its own: invoices are saved, and read back by id.        *)
(***************************************************************************)
MaxSaves == 2

\* The payloads of the invoices that are saved: the complete one, the same
\* with an invoice number made of digits (with and without leading zeros),
\* the same for a customer called "NA", and the sparse one.
StoredPayloads ==
    {CompletePayload,
     [CompletePayload EXCEPT !.invoice_number = "00123"],
     [CompletePayload EXCEPT !.invoice_number = "42"],
     [CompletePayload EXCEPT !.customer_name = "NA"],
     SparsePayload}

\* data_manager.save_extracted_invoice(InvoiceData(...))
SaveInvoice ==
    /\ Len(store.invoices) < MaxSaves
    /\ \E payload \in StoredPayloads, fault \in SaveFaults :
          LET invoice_data == WithIds(Construct("InvoiceData", payload).object,
                                      Len(store.invoices) + 1)
              outcome == SaveExtractedInvoice(store, invoice_data, fault)
          IN  /\ store' = outcome.store
              /\ saved' = IF outcome.raised = None THEN Append(saved, invoice_data)
                          ELSE saved
    /\ UNCHANGED <<loaded, managerVars, endpointVars, scoreVars, modelVars, extractVars,
                   validateVars>>

\* data_manager.get_invoice_by_id(invoice_id)
GetInvoice ==
    /\ \E n \in 1..MaxSaves :
          loaded' = Some([invoice_id |-> InvoiceIdTexts[n],
                          invoice |-> GetInvoiceById(store, InvoiceIdTexts[n])])
    /\ UNCHANGED <<store, saved, managerVars, endpointVars, scoreVars, modelVars, extractVars,
                   validateVars>>

InitStore ==
    /\ ModelInit
    /\ ExtractIdle
    /\ ValidateIdle
    /\ handler = [pc |-> "NoRequest"]
    /\ batch = [pc |-> "NoRequest"]
    /\ store = [invoices |-> <<>>, details |-> <<>>]
    /\ saved = <<>>
    /\ loaded = None
    /\ ManagerIdle
    /\ scored = None
    /\ score = None

NextStore == SaveInvoice \/ GetInvoice

SpecStore == InitStore /\ [][NextStore]_vars

(***************************************************************************)
(* The data manager under the invoice endpoints: invoices are saved,       *)
(* updated (PUT /invoices/<id>) and deleted (DELETE /invoices/<id>).       *)
(* update_invoice and delete_invoice read a whole file into a frame and    *)
(* write the frame back.                                                   *)
(***************************************************************************)
\* datetime.now().isoformat()
NowIsoformat(t) == IF t = 0 THEN "2024-03-01T12:00:00" ELSE "2024-03-01T12:00:01"

\* The frame of update_invoice after its assignments: in the rows of the
\* mask every supplied key that is a column takes the supplied value and
\* updated_at the time; updated_at is a column of the frame from then on.
UpdatedFrame(invoices_df, columns, invoice_id, updated_data, t) ==
    [i \in 1..Len(invoices_df) |->
        [f \in columns \cup {"updated_at"} |->
            IF invoices_df[i].id = Str(invoice_id)
            THEN IF f = "updated_at" THEN Str(NowIsoformat(t))
                 ELSE IF f \in DOMAIN updated_data THEN updated_data[f]
                 ELSE invoices_df[i][f]
            ELSE IF f \in columns THEN invoices_df[i][f] ELSE NaN]]

\* CSVDataManager.update_invoice
UpdateInvoice(st, invoice_id, updated_data, t) ==
    LET invoices_df == ReadFrame(st.invoices)
        mask == {i \in 1..Len(invoices_df) : invoices_df[i].id = Str(invoice_id)}
    IN  IF st.invoices = <<>> \/ mask = {}
        THEN [store |-> st, raised |-> None, value |-> Some(FALSE)]
        ELSE [store |-> [st EXCEPT !.invoices =
                            WriteFrame(UpdatedFrame(invoices_df, Columns(st.invoices),
                                                    invoice_id, updated_data, t))],
              raised |-> None, value |-> Some(TRUE)]

\* The points at which a delete can fail: nowhere, before invoices.csv is
\* written, or after it and before invoice_details.csv is written.
DeleteFaults == {"none", "invoices", "details"}

\* CSVDataManager.delete_invoice: the rows of both files are read, those of
\* the invoice left out, and the rest written back; any failure is raised
\* as DataStorageError.
DeleteInvoice(st, invoice_id, fault) ==
    LET invoices_df == SelectSeq(ReadFrame(st.invoices),
                                 LAMBDA row : row.id /= Str(invoice_id))
        details_df == SelectSeq(ReadFrame(st.details),
                                LAMBDA row : row.invoice_id /= Str(invoice_id))
        error == Exception("DataStorageError", "Failed to delete invoice: ")
    IN  IF fault = "invoices"
        THEN [store |-> st, raised |-> Some(error), value |-> None]
        ELSE IF fault = "details"
        THEN [store |-> [st EXCEPT !.invoices = WriteFrame(invoices_df)],
              raised |-> Some(error), value |-> None]
        ELSE [store |-> [invoices |-> WriteFrame(invoices_df),
                         details |-> WriteFrame(details_df)],
              raised |-> None, value |-> Some(TRUE)]

MaxStored == 2

MaxCalls == 4

\* The invoices that are saved: the complete one, the same with an invoice
\* number of digits, and the same for a customer called "NA".
ManagedPayloads ==
    {CompletePayload,
     [CompletePayload EXCEPT !.invoice_number = "00123"],
     [CompletePayload EXCEPT !.customer_name = "NA"]}

\* The JSON bodies of PUT /invoices/<id>: a new customer name with a key
\* that is no column, a new subtotal, and a new id.
UpdatePayloads ==
    {[customer_name |-> Str("Initech"), notes |-> Str("paid")],
     [subtotal |-> Float(20000)],
     [id |-> Str("id-9")]}

ManagedIds == {InvoiceIdTexts[n] : n \in 1..MaxStored} \cup {"id-9"}

\* data_manager.save_extracted_invoice(InvoiceData(...))
ManagerSave ==
    /\ storeCall.n < MaxCalls
    /\ drawn < MaxStored
    /\ \E payload \in ManagedPayloads, fault \in SaveFaults :
          LET invoice_data == WithIds(Construct("InvoiceData", payload).object, drawn + 1)
              outcome == SaveExtractedInvoice(store, invoice_data, fault)
          IN  /\ store' = outcome.store
              /\ saved' = IF outcome.raised = None THEN Append(saved, invoice_data)
                          ELSE saved
              /\ storeCall' = [op |-> "save", n |-> storeCall.n + 1,
                               invoice_id |-> invoice_data.id, before |-> store,
                               raised |-> outcome.raised, value |-> outcome.value]
    /\ drawn' = drawn + 1
    /\ UNCHANGED <<loaded, worker, endpointVars, scoreVars, modelVars, extractVars,
                   validateVars>>

\* data_manager.update_invoice(invoice_id, data)
ManagerUpdate ==
    /\ storeCall.n < MaxCalls
    /\ \E invoice_id \in ManagedIds, updated_data \in UpdatePayloads :
          LET outcome == UpdateInvoice(store, invoice_id, updated_data, now)
          IN  /\ store' = outcome.store
              /\ storeCall' = [op |-> "update", n |-> storeCall.n + 1,
                               invoice_id |-> invoice_id, updated_data |-> updated_data,
                               before |-> store,
                               raised |-> outcome.raised, value |-> outcome.value]
    /\ UNCHANGED <<saved, loaded, drawn, worker, endpointVars, scoreVars, modelVars,
                   extractVars, validateVars>>

\* data_manager.delete_invoice(invoice_id)
ManagerDelete ==
    /\ storeCall.n < MaxCalls
    /\ \E invoice_id \in ManagedIds, fault \in DeleteFaults :
          LET outcome == DeleteInvoice(store, invoice_id, fault)
          IN  /\ store' = outcome.store
              /\ storeCall' = [op |-> "delete", n |-> storeCall.n + 1,
                               invoice_id |-> invoice_id, before |-> store,
                               raised |-> outcome.raised, value |-> outcome.value]
    /\ UNCHANGED <<saved, loaded, drawn, worker, endpointVars, scoreVars, modelVars,
                   extractVars, validateVars>>

InitManager ==
    /\ ModelInit
    /\ ExtractIdle
    /\ ValidateIdle
    /\ ServiceIdle

NextManager == ManagerSave \/ ManagerUpdate \/ ManagerDelete

SpecManager == InitManager /\ [][NextManager]_vars

(***************************************************************************)
(* Two requests use the data manager at once (app.run(threaded=True)): one *)
(* saves a new invoice while the other updates or deletes the invoice that *)
(* is stored already.  Each read of a file and each write of a file is one *)
(* step; nothing orders the steps of the two requests.                     *)
(***************************************************************************)
\* The request that saves, about to write the header row.
Saving(invoice_data) ==
    [op |-> "save", pc |-> "WriteInvoices", invoice_data |-> invoice_data, value |-> None]

\* The request that updates, about to read invoices.csv.
Updating(invoice_id, updated_data) ==
    [op |-> "update", pc |-> "ReadInvoices", invoice_id |-> invoice_id,
     updated_data |-> updated_data, frame |-> <<>>, value |-> None]

\* The request that deletes, about to read invoices.csv.
Deleting(invoice_id) ==
    [op |-> "delete", pc |-> "ReadInvoices", invoice_id |-> invoice_id,
     frame |-> <<>>, value |-> None]

Workers == {"saver", "editor"}

\* header_df.to_csv(self.invoices_csv, mode='a', header=False, index=False)
SaveWriteInvoices(w) ==
    /\ worker[w].op = "save" /\ worker[w].pc = "WriteInvoices"
    /\ store' = [store EXCEPT !.invoices =
                    Append(@, RowToCsv(InvoiceData_to_csv_header(worker[w].invoice_data)))]
    /\ worker' = [worker EXCEPT ![w].pc = "WriteDetails"]
    /\ UNCHANGED <<saved, loaded, storeCall, drawn, endpointVars, scoreVars, modelVars,
                   extractVars, validateVars>>

\* details_df.to_csv(self.invoice_details_csv, mode='a', header=False,
\* index=False); return invoice_data.id
SaveWriteDetails(w) ==
    /\ worker[w].op = "save" /\ worker[w].pc = "WriteDetails"
    /\ LET details_data == InvoiceData_to_csv_details(worker[w].invoice_data)
       IN  store' = [store EXCEPT !.details =
                        @ \o [i \in 1..Len(details_data) |-> RowToCsv(details_data[i])]]
    /\ saved' = Append(saved, worker[w].invoice_data)
    /\ worker' = [worker EXCEPT ![w].pc = "Done",
                                ![w].value = Some(worker[w].invoice_data.id)]
    /\ UNCHANGED <<loaded, storeCall, drawn, endpointVars, scoreVars, modelVars,
                   extractVars, validateVars>>

\* invoices_df = pd.read_csv(self.invoices_csv) and the assignments to the
\* frame; return False when no row has the id.
UpdateReadInvoices(w) ==
    /\ worker[w].op = "update" /\ worker[w].pc = "ReadInvoices"
    /\ LET invoices_df == ReadFrame(store.invoices)
           mask == {i \in 1..Len(invoices_df) :
                       invoices_df[i].id = Str(worker[w].invoice_id)}
       IN  worker' = IF mask = {}
                     THEN [worker EXCEPT ![w].pc = "Done", ![w].value = Some(FALSE)]
                     ELSE [worker EXCEPT
                              ![w].pc = "WriteInvoices",
                              ![w].frame = UpdatedFrame(invoices_df, Columns(store.invoices),
                                                        worker[w].invoice_id,
                                                        worker[w].updated_data, now)]
    /\ UNCHANGED <<store, saved, loaded, storeCall, drawn, endpointVars, scoreVars,
                   modelVars, extractVars, validateVars>>

\* invoices_df.to_csv(self.invoices_csv, index=False); return True
UpdateWriteInvoices(w) ==
    /\ worker[w].op = "update" /\ worker[w].pc = "WriteInvoices"
    /\ store' = [store EXCEPT !.invoices = WriteFrame(worker[w].frame)]
    /\ worker' = [worker EXCEPT ![w].pc = "Done", ![w].value = Some(TRUE),
                                ![w].frame = <<>>]
    /\ UNCHANGED <<saved, loaded, storeCall, drawn, endpointVars, scoreVars, modelVars,
                   extractVars, validateVars>>

\* invoices_df = pd.read_csv(self.invoices_csv), filtered
DeleteReadInvoices(w) ==
    /\ worker[w].op = "delete" /\ worker[w].pc = "ReadInvoices"
    /\ worker' = [worker EXCEPT
                     ![w].pc = "WriteInvoices",
                     ![w].frame = SelectSeq(ReadFrame(store.invoices),
                                            LAMBDA row : row.id /= Str(worker[w].invoice_id))]
    /\ UNCHANGED <<store, saved, loaded, storeCall, drawn, endpointVars, scoreVars,
                   modelVars, extractVars, validateVars>>

\* invoices_df.to_csv(self.invoices_csv, index=False)
DeleteWriteInvoices(w) ==
    /\ worker[w].op = "delete" /\ worker[w].pc = "WriteInvoices"
    /\ store' = [store EXCEPT !.invoices = WriteFrame(worker[w].frame)]
    /\ worker' = [worker EXCEPT ![w].pc = "ReadDetails", ![w].frame = <<>>]
    /\ UNCHANGED <<saved, loaded, storeCall, drawn, endpointVars, scoreVars, modelVars,
                   extractVars, validateVars>>

\* details_df = pd.read_csv(self.invoice_details_csv), filtered
DeleteReadDetails(w) ==
    /\ worker[w].op = "delete" /\ worker[w].pc = "ReadDetails"
    /\ worker' = [worker EXCEPT
                     ![w].pc = "WriteDetails",
                     ![w].frame = SelectSeq(ReadFrame(store.details),
                                            LAMBDA row :
                                                row.invoice_id /= Str(worker[w].invoice_id))]
    /\ UNCHANGED <<store, saved, loaded, storeCall, drawn, endpointVars, scoreVars,
                   modelVars, extractVars, validateVars>>

\* details_df.to_csv(self.invoice_details_csv, index=False); return True
DeleteWriteDetails(w) ==
    /\ worker[w].op = "delete" /\ worker[w].pc = "WriteDetails"
    /\ store' = [store EXCEPT !.details = WriteFrame(worker[w].frame)]
    /\ worker' = [worker EXCEPT ![w].pc = "Done", ![w].value = Some(TRUE),
                                ![w].frame = <<>>]
    /\ UNCHANGED <<saved, loaded, storeCall, drawn, endpointVars, scoreVars, modelVars,
                   extractVars, validateVars>>

\* One invoice was saved before; a second one is being saved while the
\* first one is updated or deleted.
InitRace ==
    /\ ModelInit
    /\ ExtractIdle
    /\ ValidateIdle
    /\ handler = [pc |-> "NoRequest"]
    /\ batch = [pc |-> "NoRequest"]
    /\ loaded = None
    /\ scored = None
    /\ score = None
    /\ storeCall = [op |-> "none", n |-> 0]
    /\ drawn = 2
    /\ \E first \in ManagedPayloads, second \in ManagedPayloads :
          LET stored == WithIds(Construct("InvoiceData", first).object, 1)
              invoice_data == WithIds(Construct("InvoiceData", second).object, 2)
          IN  /\ store = SaveExtractedInvoice([invoices |-> <<>>, details |-> <<>>],
                                              stored, "none").store
              /\ saved = <<stored>>
              /\ \E edit \in {Updating(stored.id, updated_data) :
                                 updated_data \in UpdatePayloads}
                             \cup {Deleting(stored.id)} :
                    worker = [w \in Workers |->
                                 IF w = "saver" THEN Saving(invoice_data) ELSE edit]

NextRace ==
    \/ \E w \in Workers : SaveWriteInvoices(w)
    \/ \E w \in Workers : SaveWriteDetails(w)
    \/ \E w \in Workers : UpdateReadInvoices(w)
    \/ \E w \in Workers : UpdateWriteInvoices(w)
    \/ \E w \in Workers : DeleteReadInvoices(w)
    \/ \E w \in Workers : DeleteWriteInvoices(w)
    \/ \E w \in Workers : DeleteReadDetails(w)
    \/ \E w \in Workers : DeleteWriteDetails(w)

SpecRace == InitRace /\ [][NextRace]_vars

(***************************************************************************)
(* validate_extraction on constructed invoices: the endpoints give it an   *)
(* InvoiceData built from extraction_result.extracted_data, an object that *)
(* construction accepted and that nothing has modified.                    *)
(***************************************************************************)
\* Invoices of one line that is off by 0.01, with amounts around the
\* tolerances of construction.
NearMissInputs ==
    [invoice_number : {"INV-1"}, customer_name : {"ACME"},
     billing_address : {[street |-> "1 Main St", city |-> "Springfield"]},
     items : {<<[description |-> "Widget", quantity |-> 3, unit_price |-> 1000,
                 total |-> 3001]>>},
     subtotal : {3000, 3001, 3002, 3003}, tax_rate : {0, 8},
     tax : {0, 1, 2, 240, 340, 341}, total : {3001, 3002, 3003, 3502, 3503}]

\* The objects construction accepts among the inputs of the model.
ConstructedInvoices ==
    {Construct("InvoiceData", raw).object :
        raw \in {i \in InvoiceInputs \cup NearMissInputs : Construct("InvoiceData", i).ok}}

InitConstructed ==
    /\ ModelInit
    /\ ExtractIdle
    /\ ServiceIdle
    /\ subject \in {Some(AsValidated(d)) : d \in ConstructedInvoices}
    /\ report = None
    /\ previous = None
    /\ escaped = FALSE

NextConstructed == Validate

SpecConstructed == InitConstructed /\ [][NextConstructed]_vars

(***************************************************************************)
(* Properties of construction.                                             *)
(***************************************************************************)
IsRequest(op) == request /= None /\ request[1].op = op

\* The three aggregate identities of an InvoiceData-shaped record d, within
\* 0.01, 1.00 and 5.00.
SubtotalWithin(d) == Abs(d.subtotal - SumTotals(d.items)) <= 1

TaxWithin(d) == Abs(d.tax * 100 - d.subtotal * d.tax_rate) <= 100 * 100

TotalWithin(d) == Abs(d.total - (d.subtotal + d.tax)) <= 500

LineWithin(it) == Abs(it.total - it.quantity * it.unit_price) <= 1

\* Every Field(...) constraint of the payload holds: at least one item,
\* quantities > 0, amounts >= 0 and a tax rate within [0, 1].
ConstraintsHold(raw) ==
    /\ Len(raw.items) >= 1
    /\ \A i \in 1..Len(raw.items) :
          /\ raw.items[i].quantity > 0
          /\ raw.items[i].unit_price >= 0
          /\ raw.items[i].total >= 0
    /\ raw.subtotal >= 0 /\ raw.tax >= 0 /\ raw.total >= 0
    /\ raw.tax_rate >= 0 /\ raw.tax_rate <= 100

\* The error message names the stored and the recomputed value.
NamesBothValues(e) == e.type = "value_error"

\* C1: constructing an InvoiceItem with quantity > 0, unit_price >= 0 and
\* total >= 0 succeeds if and only if |total - quantity * unit_price| <= 0.01;
\* every constructed line item is within that tolerance and carries its
\* input, and the input quantity 3, unit price 10.00, total 31.00 is rejected.
C1_ItemWithinTolerance ==
    /\ item /= None => LineWithin(item[1])
    /\ IsRequest("InvoiceItem") =>
          LET raw == request[1].input
          IN  /\ (raw.quantity > 0 /\ raw.unit_price >= 0 /\ raw.total >= 0)
                    => ((item /= None) <=> LineWithin(raw))
              /\ item /= None => item[1] = raw
              /\ (raw.quantity = 3 /\ raw.unit_price = 1000 /\ raw.total = 3100)
                    => item = None /\ \E e \in errors : NamesBothValues(e)

\* C1, witness: a line item whose total is off by exactly 0.01 was built.
C1_Witness ==
    /\ IsRequest("InvoiceItem")
    /\ item /= None
    /\ Abs(item[1].total - item[1].quantity * item[1].unit_price) = 1

\* C2 as stated: every accepted InvoiceData satisfies the three identities,
\* and every input that exceeds one of the tolerances is rejected with an
\* error that names the stored and the recomputed value.
C2_AsStated ==
    /\ invoice /= None =>
          SubtotalWithin(invoice[1]) /\ TaxWithin(invoice[1]) /\ TotalWithin(invoice[1])
    /\ IsRequest("InvoiceData") =>
          LET raw == request[1].input
          IN  ~(SubtotalWithin(raw) /\ TaxWithin(raw) /\ TotalWithin(raw))
                 => invoice = None /\ \E e \in errors : NamesBothValues(e)

\* C2, amended: every accepted InvoiceData satisfies the three identities;
\* every input that exceeds one of the tolerances is rejected; and when the
\* input also satisfies every field constraint, the rejection carries an
\* error that names the stored and the recomputed value of a violated
\* identity.  (The input subtotal 100.00, rate 0.08, tax 8.00, total 200.00
\* is such a case.)
C2_IdentitiesWithinTolerance ==
    /\ invoice /= None =>
          SubtotalWithin(invoice[1]) /\ TaxWithin(invoice[1]) /\ TotalWithin(invoice[1])
    /\ IsRequest("InvoiceData") =>
          LET raw == request[1].input
          IN  ~(SubtotalWithin(raw) /\ TaxWithin(raw) /\ TotalWithin(raw))
                 => /\ invoice = None
                    /\ errors /= {}
                    /\ ConstraintsHold(raw) => \E e \in errors : NamesBothValues(e)

\* C2, witness: the input subtotal 100.00, rate 0.08, tax 8.00, total 200.00
\* over items that sum to 100.00 was rejected for its total alone.
C2_Witness ==
    /\ IsRequest("InvoiceData")
    /\ LET raw == request[1].input
       IN  /\ ConstraintsHold(raw) /\ SubtotalWithin(raw) /\ TaxWithin(raw)
           /\ raw.subtotal = 10000 /\ raw.tax_rate = 8
           /\ raw.tax = 800 /\ raw.total = 20000
    /\ invoice = None
    /\ errors = ValueError("total", 20000, 10800)

(***************************************************************************)
(* Properties of assignment.                                               *)
(***************************************************************************)
\* Every invariant that construction enforces on a line item.
ItemInvariants(it) ==
    it.quantity > 0 /\ it.unit_price >= 0 /\ it.total >= 0 /\ LineWithin(it)

\* Every invariant that construction enforces on an invoice.
InvoiceInvariants(d) ==
    /\ Len(d.items) >= 1
    /\ \A i \in 1..Len(d.items) : ItemInvariants(d.items[i])
    /\ d.subtotal >= 0 /\ d.tax >= 0 /\ d.total >= 0
    /\ d.tax_rate >= 0 /\ d.tax_rate <= 100
    /\ SubtotalWithin(d) /\ TaxWithin(d) /\ TotalWithin(d)

\* C5 as stated: after any sequence of field assignments, a constructed
\* InvoiceItem or InvoiceData still satisfies every construction-time
\* invariant.
C5_AsStated ==
    /\ item /= None => ItemInvariants(item[1])
    /\ invoice /= None => InvoiceInvariants(invoice[1])

(***************************************************************************)
(* Properties of extract_invoice_data.                                     *)
(***************************************************************************)
\* An error message is its parts put together; it is empty when all are.
NonEmptyMessage(m) == m /= None /\ \E i \in 1..Len(m[1]) : m[1][i] /= ""

\* C3: extract_invoice_data lets no exception escape; every failure (image
\* missing or unreadable, model error or timeout, no parsed payload, a
\* payload that is no valid InvoiceData) ends in a returned result with
\* success = false, a non-empty error message and the processing time
\* measured from the start of the call; a call that ended has a result.
C3_FailureIsReturned ==
    \A c \in calls :
       LET st == call[c]
       IN  /\ st.pc /= "Raised" /\ st.raised = None
           /\ st.pc \in {"Succeeded", "Failed"} <=> st.result /= None
           /\ st.pc = "Failed" =>
                 /\ st.result[1].success = FALSE
                 /\ NonEmptyMessage(st.result[1].error_message)
                 /\ st.result[1].processing_time = Some(st.end_time - st.start_time)
                 /\ st.result[1].document_id = st.document_id

\* C3, witness: every attempt timed out, and the call returned a failure
\* result whose processing time is positive.
C3_Witness ==
    \E c \in calls :
       /\ call[c].pc = "Failed"
       /\ call[c].attempts = 4
       /\ call[c].result /= None
       /\ call[c].result[1].success = FALSE
       /\ call[c].result[1].error_message =
             Some(<<"Failed to extract invoice data: ", "Request timed out.">>)
       /\ call[c].result[1].processing_time /= None
       /\ call[c].result[1].processing_time[1] > 0

\* The steps a call may take.
LifecycleSteps ==
    {<<"NotStarted", "Started">>, <<"Started", "ModelInvoked">>,
     <<"ModelInvoked", "ModelInvoked">>, <<"ModelInvoked", "Parsed">>,
     <<"Parsed", "Succeeded">>, <<"Started", "Failed">>,
     <<"ModelInvoked", "Failed">>, <<"Parsed", "Failed">>}

LifecycleStep(c) ==
    \/ call'[c] = call[c]
    \/ /\ <<call[c].pc, call'[c].pc>> \in LifecycleSteps
       /\ call[c].pc \notin {"Succeeded", "Failed"}
       /\ call'[c].response = "no payload" => call'[c].pc = "Failed"

LifecycleState(c) ==
    LET st == call[c]
    IN  /\ st.pc \in {"Parsed", "Succeeded"} =>
              st.attempts >= 1 /\ st.response = "payload" /\ st.parsed /= None
        /\ st.pc = "Succeeded" => st.result /= None /\ st.result[1].success
        /\ st.pc = "Failed" => st.result /= None /\ ~st.result[1].success
        /\ st.response = "no payload" => st.pc = "Failed"

\* C4: a call moves Started -> ModelInvoked -> Parsed -> Succeeded in that
\* order, or to Failed from a step that is not terminal; it is Parsed or
\* Succeeded only after the model was invoked and returned a parsed payload;
\* a response without parsed payload goes to Failed; Succeeded and Failed
\* are terminal, and the returned result says which of the two it is.
C4_Lifecycle ==
    /\ [](\A c \in calls : LifecycleState(c))
    /\ [][\A c \in calls : LifecycleStep(c)]_vars

\* C4, witness: a call succeeded after a retried model call.
C4_Witness ==
    \E c \in calls :
       /\ call[c].pc = "Succeeded"
       /\ call[c].attempts = 2
       /\ call[c].response = "payload"
       /\ call[c].result[1].extracted_data = call[c].parsed

(***************************************************************************)
(* Properties of validate_extraction.                                      *)
(***************************************************************************)
HasMessage(list, kind) == \E k \in 1..Len(list) : list[k][1] = kind

HasLineWarning(r, i) ==
    \E k \in 1..Len(r.warnings) :
       r.warnings[k][1] = "Line total mismatch" /\ r.warnings[k][2] = i

\* Every amount of d is a number.
AllNumbers(d) ==
    /\ IsNumber(d.subtotal) /\ IsNumber(d.tax_rate) /\ IsNumber(d.tax) /\ IsNumber(d.total)
    /\ \A i \in 1..Len(d.items) :
          IsNumber(d.items[i].unit_price) /\ IsNumber(d.items[i].total)

\* The four differences that validate_extraction compares with 0.01; the
\* one of the tax is in hundredths of a cent.
SubtotalOff(d) == Abs(SumOfTotals(d.items) - d.subtotal.value)

TaxOff(d) == Abs(d.subtotal.value * d.tax_rate.value - d.tax.value * 100)

TotalOff(d) == Abs(d.subtotal.value + d.tax.value - d.total.value)

LineOff(it) == Abs(it.quantity * it.unit_price.value - it.total.value)

\* All four identities of d hold exactly.
Exact(d) ==
    /\ AllNumbers(d)
    /\ SubtotalOff(d) = 0 /\ TaxOff(d) = 0 /\ TotalOff(d) = 0
    /\ \A i \in 1..Len(d.items) : LineOff(d.items[i]) = 0

\* C6: no exception leaves validate_extraction, whatever it is given (zero
\* items and amounts that are no numbers included): every call returns a
\* report, and when a check raised, the report has is_valid = false and an
\* error entry for it.
C6_ValidationNeverRaises ==
    /\ [][report' /= None /\ ~escaped']_vars
    /\ [](report /= None /\ TryBlock(subject[1], ValidationResults(None)).raised
             => /\ ~report[1].is_valid
                /\ HasMessage(report[1].errors, "Validation error"))

\* C6, witness: a report was returned for an object without items whose
\* total is no number, and it has is_valid = false and the error entry.
C6_Witness ==
    /\ subject /= None /\ report /= None
    /\ subject[1].items = <<>>
    /\ ~IsNumber(subject[1].total)
    /\ IsNumber(subject[1].subtotal) /\ IsNumber(subject[1].tax_rate)
    /\ IsNumber(subject[1].tax)
    /\ ~report[1].is_valid
    /\ report[1].errors = <<<<"Validation error">>>>

\* C7: in every report returned, the errors list is non-empty exactly when
\* is_valid is false; a report with warnings and no errors is valid.
C7_ErrorsIffInvalid ==
    report /= None => (report[1].errors /= <<>> <=> ~report[1].is_valid)

\* C7, witness: a report with warnings and no errors, and is_valid = true.
C7_Witness ==
    /\ report /= None
    /\ report[1].warnings /= <<>>
    /\ report[1].errors = <<>>
    /\ report[1].is_valid

\* The findings of report r on d are those the 0.01 tolerance asks for, as
\* far as the amounts they compare are numbers.
ClassifiedByTolerance(d, r) ==
    /\ IsNumber(d.subtotal) /\ IsNumber(d.tax) /\ IsNumber(d.total) =>
          /\ HasMessage(r.errors, "Total mismatch") <=> TotalOff(d) > 1
          /\ TotalOff(d) > 1 => ~r.is_valid
    /\ IsNumber(d.subtotal) /\ AllTotalsNumbers(d.items) =>
          (HasMessage(r.warnings, "Subtotal mismatch") <=> SubtotalOff(d) > 1)
    /\ IsNumber(d.subtotal) /\ IsNumber(d.tax_rate) /\ IsNumber(d.tax) =>
          (HasMessage(r.warnings, "Tax calculation mismatch") <=> TaxOff(d) > 100)
    /\ \A i \in 1..Len(d.items) :
          IsNumber(d.items[i].unit_price) /\ IsNumber(d.items[i].total) =>
             (HasLineWarning(r, i) <=> LineOff(d.items[i]) > 1)

\* C8 as stated: every report classifies by the 0.01 tolerance, and an
\* invoice whose identities are exact and whose invoice number and customer
\* name are present gets no warning and no error.
C8_AsStated ==
    report /= None =>
       /\ ClassifiedByTolerance(subject[1], report[1])
       /\ Exact(subject[1]) /\ subject[1].invoice_number /= ""
             /\ subject[1].customer_name /= ""
             => report[1].warnings = <<>> /\ report[1].errors = <<>>

\* C8, amended: for an invoice whose amounts are all numbers (as those of
\* every constructed InvoiceData are), the report classifies by the 0.01
\* tolerance: a total error, with is_valid = false, exactly when
\* |subtotal + tax - total| > 0.01, a subtotal, tax or line warning exactly
\* when its difference exceeds 0.01; and such an invoice with at least one
\* item, exact identities, an invoice number and a customer name gets no
\* warning and no error.
C8_ClassifiedByTolerance ==
    report /= None /\ AllNumbers(subject[1]) =>
       /\ ClassifiedByTolerance(subject[1], report[1])
       /\ Exact(subject[1]) /\ subject[1].invoice_number /= ""
             /\ subject[1].customer_name /= "" /\ subject[1].items /= <<>>
             => /\ report[1].warnings = <<>> /\ report[1].errors = <<>>
                /\ report[1].is_valid

\* C8, witness: subtotal 100.00, rate 0.08, tax 8.00, total 108.00 over two
\* exact items was validated, with no warning and no error.
C8_Witness ==
    /\ subject /= None /\ report /= None
    /\ Exact(subject[1]) /\ Len(subject[1].items) = 2
    /\ subject[1].subtotal = Decimal(10000) /\ subject[1].tax_rate = Decimal(8)
    /\ subject[1].tax = Decimal(800) /\ subject[1].total = Decimal(10800)
    /\ subject[1].invoice_number /= "" /\ subject[1].customer_name /= ""
    /\ report[1] = [is_valid |-> TRUE, warnings |-> <<>>, errors |-> <<>>,
                    suggestions |-> <<>>]

\* C9: a missing invoice number, a missing customer name or an empty item
\* list makes the report blocking (is_valid = false, with an error),
\* whatever the numeric checks find and also when one of them raises before
\* the checks of missing data are reached.
C9_MissingDataBlocks ==
    (/\ report /= None
     /\ \/ subject[1].invoice_number = ""
        \/ subject[1].customer_name = ""
        \/ subject[1].items = <<>>)
       => ~report[1].is_valid /\ report[1].errors /= <<>>

\* C9, witness: the item list is empty, every identity is exact and the
\* invoice number and customer name are present; the report is blocking.
C9_Witness ==
    /\ subject /= None /\ report /= None
    /\ subject[1].items = <<>> /\ Exact(subject[1])
    /\ subject[1].invoice_number /= "" /\ subject[1].customer_name /= ""
    /\ ~report[1].is_valid
    /\ report[1].errors = <<<<"No invoice items found">>>>

\* C10: validate_extraction does not modify the object it is given, and a
\* second call on the same object returns the report of the first: the same
\* is_valid, warnings, errors and suggestions, in the same order.
C10_Idempotent ==
    /\ [][subject' = subject /\ (report /= None => report' = report)]_vars
    /\ [](previous /= None => report = previous)

\* C10, witness: a second call returned, again, a report with a warning and
\* an error.
C10_Witness ==
    /\ previous /= None /\ report = previous
    /\ report[1].warnings /= <<>>
    /\ report[1].errors /= <<>>

(***************************************************************************)
(* Properties of POST /extract/<document_id>.                              *)
(***************************************************************************)
Extracted(h) == h.pc /= "NoRequest" /\ h.extraction_result /= None
                    /\ h.extraction_result[1].success

\* The stored rows of the invoice with that id.
HeaderRows(id) == SelectSeq(store.invoices, LAMBDA row : row.id = [chars |-> id])

DetailRows(id) == SelectSeq(store.details, LAMBDA row : row.invoice_id = [chars |-> id])

\* C11, as stated: when the extraction has succeeded and a later step (the
\* validation or the save) fails, the answer does not report the
\* extraction as failed, and the ExtractionResult produced is unchanged.
C11_AsStated ==
    /\ (Extracted(handler) /\ handler.pc = "Responded" /\ ~handler.response[1].success)
          => handler.response[1].error /= Some("Extraction failed")
    /\ Extracted(handler) => handler.extraction_result[1].error_message = None

IsPrefix(s, t) == Len(s) <= Len(t) /\ \A i \in 1..Len(s) : s[i] = t[i]

\* The entries written so far are those of the first ids, in request order;
\* an unknown id has a failed entry "Document not found", a success entry
\* names a stored invoice, a failed entry names its error.
BatchEntriesInOrder ==
    batch.pc \in {"Loop", "Responded"} /\ batch.body /= None /\ batch.api_key
       => LET ids == batch.body[1]
              results == batch.results
          IN  /\ Len(results) = batch.index - 1
              /\ Len(results) <= Len(ids)
              /\ \A i \in 1..Len(results) :
                    /\ results[i].document_id = ids[i]
                    /\ ids[i] \notin uploads
                          => /\ ~results[i].success
                             /\ results[i].error = Some(<<"Document not found">>)
                    /\ results[i].success
                          => /\ ids[i] \in uploads
                             /\ results[i].error = None
                             /\ Len(HeaderRows(results[i].invoice_id[1])) = 1
                    /\ ~results[i].success => results[i].error /= None

\* The answer to a list of ids holds one entry per id, and the summary
\* counts them.
BatchSummaryCounts ==
    batch.pc = "Responded" /\ batch.body /= None /\ batch.api_key
       => LET response == batch.response[1]
              ids == batch.body[1]
          IN  /\ response.status = 200
              /\ response.data /= None
              /\ response.data[1].results = batch.results
              /\ Len(response.data[1].results) = Len(ids)
              /\ response.data[1].summary.total_processed = Len(ids)
              /\ response.data[1].summary.successful
                    = Cardinality({i \in 1..Len(ids) : batch.results[i].success})
              /\ response.data[1].summary.failed
                    = Len(ids) - response.data[1].summary.successful

\* C13: for any list of ids the result list has one entry per id, in
\* request order; an unknown id, a failed extraction or a failed save gives
\* a failed entry for that document only, and no step changes an entry
\* already written; the summary counts the entries.
C13_BatchIsolatesDocuments ==
    /\ [](BatchEntriesInOrder /\ BatchSummaryCounts)
    /\ [][batch.pc = "Loop" => IsPrefix(batch.results, batch'.results)]_vars

\* Scenario E: three ids, the second unknown; the first and the third are
\* saved, the second is "Document not found", and the summary says 2 and 1.
C13_Witness ==
    /\ batch.pc = "Responded"
    /\ batch.response[1].status = 200
    /\ Len(batch.results) = 3
    /\ batch.results[1].success
    /\ ~batch.results[2].success
    /\ batch.results[2].error = Some(<<"Document not found">>)
    /\ batch.results[3].success
    /\ batch.response[1].data[1].summary
          = [total_processed |-> 3, successful |-> 2, failed |-> 1]

(***************************************************************************)
(* Properties of the image check and of the retries.                       *)
(***************************************************************************)
\* C14: when the image file does not exist, the call returns a failed
\* result that names the missing image, and the model is never invoked for
\* it: a call whose document is not uploaded makes no attempt at all.
C14_MissingImageFailsFast ==
    \A c \in calls :
        (call[c].pc /= "NotStarted" /\ call[c].document_id \notin uploads)
           => /\ call[c].attempts = 0
              /\ call[c].pc \in {"Started", "Failed"}
              /\ call[c].pc = "Failed"
                    => /\ ~call[c].result[1].success
                       /\ call[c].result[1].error_message
                             = Some(<<"Failed to extract invoice data: ",
                                      "Image file not found">>)

C14_Witness ==
    \E c \in calls :
        /\ call[c].pc = "Failed"
        /\ call[c].document_id \notin uploads
        /\ call[c].attempts = 0
        /\ call[c].result[1].error_message
              = Some(<<"Failed to extract invoice data: ", "Image file not found">>)

Terminated == \A c \in calls : call[c].pc \in {"Succeeded", "Failed"}

AttemptsBounded ==
    \A c \in calls :
        /\ call[c].attempts <= 1 + MaxRetries
        /\ (call[c].pc = "Failed" /\ call[c].attempts > 0)
              => /\ ~call[c].result[1].success
                 /\ NonEmptyMessage(call[c].result[1].error_message)
                 /\ call[c].result[1].processing_time /= None
                 /\ call[c].result[1].processing_time[1] >= 0

\* C15: the model is attempted at most 1 + max_retries times; a call whose
\* attempts all time out or fail ends with a failure result (success false,
\* a non-empty message, the processing time set), and every call ends.
C15_RetriesAreBounded == []AttemptsBounded /\ <>Terminated

\* Scenario D: the last of the 1 + max_retries attempts timed out.
C15_Witness ==
    \E c \in calls :
        /\ call[c].pc = "Failed"
        /\ call[c].attempts = 1 + MaxRetries
        /\ ~call[c].result[1].success
        /\ call[c].result[1].error_message
              = Some(<<"Failed to extract invoice data: ", "Request timed out.">>)
        /\ call[c].result[1].processing_time[1] > 0

(***************************************************************************)
(* Properties of the confidence score (in tenths).                         *)
(***************************************************************************)
\* C16: the score is within [0,1], and scoring the same object with one
\* more completeness signal never gives a lower score.
C16_ScoreIsMonotone ==
    /\ [](score /= None => score[1] >= 0 /\ score[1] <= 10)
    /\ [][(score /= None /\ score' /= None) => score'[1] >= score[1]]_vars

\* An object whose only signal is its invoice number: without it the score
\* is 0.9, with it the score is 1.0.
C16_Witness ==
    /\ score = Some(10)
    /\ scored[1].invoice_number /= ""
    /\ \A s \in Signals \ {"invoice_number", "descriptions"} : ~Present(scored[1], s)
    /\ scored[1].tax_rate < 0
    /\ CalculateConfidenceScore([scored[1] EXCEPT !.invoice_number = ""]) = 9

\* The increments the claim lists, for the object d.
Increments(d) ==
    LET Tenths(b, n) == IF b THEN n ELSE 0
    IN    Tenths(d.invoice_number /= "", 1)
        + Tenths(d.customer_name /= "", 1)
        + Tenths(Len(d.items) /= 0, 2)
        + Tenths(d.billing_address.street /= "" /\ d.billing_address.city /= "", 1)
        + Tenths(d.subtotal > 0, 1)
        + Tenths(d.total > 0, 1)
        + Tenths(d.tax_rate >= 0, 1)
        + Tenths(d.invoice_date /= None, 1)
        + Tenths(Len(d.items) > 0, 1)
        + Tenths(\A it \in {d.items[i] : i \in 1..Len(d.items)} :
                     it.description /= "" /\ it.quantity > 0, 1)

\* C17: the score is min(0.8 + increments, 1.0), with the increments of the
\* ten checks.
C17_ScoreFormula ==
    score /= None
       => score[1] = IF 8 + Increments(scored[1]) <= 10
                     THEN 8 + Increments(scored[1]) ELSE 10

\* Both cases: a sum below the cap, and a sum the cap cuts.
C17_Witness ==
    /\ score /= None
    /\ \/ (8 + Increments(scored[1]) = 9 /\ score[1] = 9)
       \/ (8 + Increments(scored[1]) > 10 /\ score[1] = 10)
    /\ scored[1].tax_rate < 0
    /\ scored[1].customer_name /= ""

\* The share of the score that the item list and the tax rate of d give
\* on their own: 0.2 + 0.1 for a non-empty list, 0.1 for the check of all
\* items of an empty one, and 0.1 for a tax rate that is not negative.
ItemAndTaxIncrements(d) ==
      (IF Len(d.items) > 0 THEN 3 ELSE 0)
    + (IF d.items = <<>> THEN 1 ELSE 0)
    + (IF d.tax_rate >= 0 THEN 1 ELSE 0)

\* C30: for an object whose tax rate is at least 0 the score is exactly 1.0
\* whatever its other fields hold: the items and the tax rate add 0.4 to
\* the base 0.8 when the item list is not empty, and the tax rate and the
\* check of all items add 0.2 when it is empty.
C30_ScoreIsAlwaysOne ==
    (score /= None /\ scored[1].tax_rate >= 0)
       => /\ score = Some(10)
          /\ ItemAndTaxIncrements(scored[1]) = IF scored[1].items /= <<>> THEN 4 ELSE 2
          /\ 8 + ItemAndTaxIncrements(scored[1]) >= 10
          /\ Increments(scored[1]) >= ItemAndTaxIncrements(scored[1])

\* An object that shows nothing but a tax rate of zero (no number, date,
\* customer, address, items or amounts) was scored 1.0.
C30_Witness ==
    /\ score = Some(10)
    /\ scored[1].tax_rate = 0
    /\ scored[1].items = <<>>
    /\ \A s \in Signals \ {"descriptions"} : ~Present(scored[1], s)
    /\ Increments(scored[1]) = 2

(***************************************************************************)
(* Properties of the header/detail serialization and of the storage.       *)
(***************************************************************************)
\* C18: the serialization of an invoice is one header record with the
\* invoice's id and invoice-level fields, and one detail record per line
\* item, in the order of the items, each with the header's id as
\* invoice_id; these are the rows a save writes.
C18_HeaderAndDetails ==
    \A n \in 1..Len(saved) :
        LET d == saved[n]
            header == InvoiceData_to_csv_header(d)
            details == InvoiceData_to_csv_details(d)
        IN  /\ header.id = Str(d.id)
            /\ header.invoice_number = Str(d.invoice_number)
            /\ header.customer_name = Str(d.customer_name)
            /\ header.billing_street = Str(d.billing_address.street)
            /\ header.billing_city = Str(d.billing_address.city)
            /\ header.subtotal = Float(d.subtotal)
            /\ header.tax_rate = Float(d.tax_rate)
            /\ header.tax_amount = Float(d.tax)
            /\ header.total_amount = Float(d.total)
            /\ Len(details) = Len(d.items)
            /\ \A i \in 1..Len(d.items) :
                  /\ details[i].invoice_id = header.id
                  /\ details[i].id = Str(d.items[i].id)
                  /\ details[i].description = Str(d.items[i].description)
                  /\ details[i].quantity = PyInt(d.items[i].quantity)
                  /\ details[i].unit_price = Float(d.items[i].unit_price)
                  /\ details[i].line_total = Float(d.items[i].total)
            /\ HeaderRows(d.id) = <<RowToCsv(header)>>
            /\ DetailRows(d.id) = [i \in 1..Len(details) |-> RowToCsv(details[i])]

\* Two invoices are saved, the second with two line items.
C18_Witness ==
    /\ Len(saved) = 2
    /\ Len(saved[2].items) = 2
    /\ Len(DetailRows(saved[2].id)) = 2
    /\ DetailRows(saved[2].id)[2].description = [chars |-> saved[2].items[2].description]

\* Whether the value v read from storage stands for the string s that was
\* saved: the same string (a missing value standing for the empty string),
\* or the integer whose text s is.
SameText(v, s) ==
    \/ v = Str(s)
    \/ (s = "" /\ v = NaN)
    \/ ("int" \in DOMAIN v /\ CanonicalText[v.int] = s)

\* Whether the dict read from storage is equivalent to the invoice d.
Equivalent(inv, d) ==
    /\ SameText(inv.invoice_number, d.invoice_number)
    /\ SameText(inv.customer_name, d.customer_name)
    /\ SameText(inv.billing_street, d.billing_address.street)
    /\ SameText(inv.billing_city, d.billing_address.city)
    /\ inv.subtotal = Float(d.subtotal)
    /\ inv.tax_rate = Float(d.tax_rate)
    /\ inv.tax_amount = Float(d.tax)
    /\ inv.total_amount = Float(d.total)
    /\ Len(inv.items) = Len(d.items)
    /\ \A i \in 1..Len(d.items) :
          /\ SameText(inv.items[i].description, d.items[i].description)
          /\ inv.items[i].quantity = PyInt(d.items[i].quantity)
          /\ inv.items[i].unit_price = Float(d.items[i].unit_price)
          /\ inv.items[i].line_total = Float(d.items[i].total)

\* C19, as stated: an invoice that was saved and is read back by its id is
\* equivalent to the original: every monetary and every descriptive field
\* is preserved, the items in their order.
C19_AsStated ==
    \A n \in 1..Len(saved) :
        (loaded /= None /\ loaded[1].invoice_id = saved[n].id)
           => /\ loaded[1].invoice /= None
              /\ Equivalent(loaded[1].invoice[1], saved[n])

(***************************************************************************)
(* Properties of concurrent extractions.                                   *)
(***************************************************************************)
\* A step of one call leaves the other calls as they are, and no step of a
\* call writes what the calls share (the upload folder).
NoInterference ==
    /\ uploads' = uploads
    /\ \A c \in calls :
          call'[c] /= call[c] => \A o \in calls \ {c} : call'[o] = call[o]

\* The result of a finished call is one the call returns when it runs
\* alone on its document: it holds the call's own document id, payload,
\* score and error.
ResultsAsAlone ==
    \A c \in calls :
        call[c].pc \in {"Succeeded", "Failed"}
           => LET result == call[c].result[1]
              IN  /\ result \in ExtractInvoiceData(call[c].document_id, call[c].start_time)
                  /\ result.document_id = call[c].document_id
                  /\ result.success <=> call[c].pc = "Succeeded"
                  /\ result.success
                        => /\ result.extracted_data = call[c].parsed
                           /\ result.confidence_score
                                 = Some(CalculateConfidenceScore(call[c].parsed[1]))

\* C20: under every interleaving of two concurrent calls, each call's
\* result (success flag, extracted data, confidence, error message) is a
\* result of that call run alone, and no step of one call changes the
\* state of the other.
C20_ConcurrentCallsAreIndependent ==
    /\ []ResultsAsAlone
    /\ [][NoInterference]_vars

\* Two calls on different documents have both finished, one with the
\* complete payload and one with a failure.
C20_Witness ==
    /\ call["call1"].document_id /= call["call2"].document_id
    /\ call["call1"].pc = "Succeeded"
    /\ call["call1"].result[1].extracted_data[1].invoice_number = "INV-1"
    /\ call["call2"].pc = "Failed"
    /\ call["call2"].attempts > 0

(***************************************************************************)
(* Properties of the data manager.                                         *)
(***************************************************************************)
\* The header lines of a file that carry the id.
Matching(rows, invoice_id) ==
    {i \in 1..Len(rows) : rows[i].id = ToCsv(Str(invoice_id))}

\* The line is as it was: every field it had holds the same text.
SameLine(after, before) ==
    \A f \in DOMAIN before : f \in DOMAIN after /\ after[f] = before[f]

\* C21, as stated: update_invoice returns False and leaves the storage as it
\* was when no header row has the id; otherwise it returns True, the
\* matching row holds the supplied values in the supplied keys that are
\* columns, the time in updated_at and its former text elsewhere, and every
\* other header row and every detail row is as it was.
C21_AsStated ==
    storeCall.op = "update"
       => LET before == storeCall.before
              data == storeCall.updated_data
              hits == Matching(before.invoices, storeCall.invoice_id)
          IN  IF hits = {}
              THEN storeCall.value = Some(FALSE) /\ store = before
              ELSE /\ storeCall.value = Some(TRUE)
                   /\ store.details = before.details
                   /\ Len(store.invoices) = Len(before.invoices)
                   /\ \A i \in 1..Len(before.invoices) :
                         IF i \in hits
                         THEN \A f \in DOMAIN store.invoices[i] :
                                 store.invoices[i][f]
                                    = IF f = "updated_at"
                                      THEN ToCsv(Str(NowIsoformat(now)))
                                      ELSE IF f \in DOMAIN data THEN ToCsv(data[f])
                                      ELSE before.invoices[i][f]
                         ELSE SameLine(store.invoices[i], before.invoices[i])

\* The lines of a file that do not refer to the id by the key.
Others(rows, key, invoice_id) ==
    SelectSeq(rows, LAMBDA row : row[key] /= ToCsv(Str(invoice_id)))

\* The lines are, one by one, as they were.
SameLines(after, before) ==
    /\ Len(after) = Len(before)
    /\ \A i \in 1..Len(before) : SameLine(after[i], before[i])

\* C27, as stated: a delete_invoice that returns has returned True; the
\* header rows and the detail rows of the id are gone, every other row of
\* both files is as it was, get_invoice_by_id finds nothing under the id,
\* and when no row referred to the id the storage is as it was.
C27_AsStated ==
    (storeCall.op = "delete" /\ storeCall.raised = None)
       => LET before == storeCall.before
              id == storeCall.invoice_id
          IN  /\ storeCall.value = Some(TRUE)
              /\ SameLines(store.invoices, Others(before.invoices, "id", id))
              /\ SameLines(store.details, Others(before.details, "invoice_id", id))
              /\ GetInvoiceById(store, id) = None
              /\ (/\ Others(before.invoices, "id", id) = before.invoices
                  /\ Others(before.details, "invoice_id", id) = before.details)
                    => store = before

\* Every detail row refers to a header row, and every header row has
\* detail rows.
Consistent(st) ==
    /\ \A i \in 1..Len(st.details) :
          \E j \in 1..Len(st.invoices) : st.invoices[j].id = st.details[i].invoice_id
    /\ \A j \in 1..Len(st.invoices) :
          \E i \in 1..Len(st.details) : st.details[i].invoice_id = st.invoices[j].id

\* C25, as stated: after any sequence of save_extracted_invoice,
\* update_invoice and delete_invoice calls, failed ones and updates of the
\* key 'id' included, every detail row's invoice_id is the id of a header
\* row and every header row has its detail rows.
C25_AsStated == Consistent(store)

\* C26, as stated: when a save_extracted_invoice has returned and the
\* update_invoice or delete_invoice of another invoice that ran at the same
\* time has returned too, the saved header row and its detail rows are in
\* the storage.
C26_AsStated ==
    (\A w \in Workers : worker[w].pc = "Done")
       => \A w \in Workers :
             worker[w].op = "save"
                => LET invoice_data == worker[w].invoice_data
                   IN  /\ Cardinality(Matching(store.invoices, invoice_data.id)) = 1
                       /\ Len(SelectSeq(store.details,
                                        LAMBDA row :
                                            row.invoice_id = ToCsv(Str(invoice_data.id))))
                             = Len(invoice_data.items)

(***************************************************************************)
(* Properties of the extraction result.                                    *)
(***************************************************************************)
\* C22: for every result extract_invoice_data returns, is_valid (success
\* and extracted data present) equals success: a success result carries
\* extracted data and a confidence score and no error message, a failure
\* result an error message and no extracted data.
C22_IsValidEqualsSuccess ==
    \A c \in calls :
        call[c].result /= None
           => LET result == call[c].result[1]
              IN  /\ IsValid(result) <=> (result.success /\ result.extracted_data /= None)
                  /\ IsValid(result) <=> result.success
                  /\ result.success
                        => /\ result.extracted_data /= None
                           /\ result.confidence_score /= None
                           /\ result.error_message = None
                  /\ ~result.success
                        => /\ result.error_message /= None
                           /\ result.extracted_data = None

\* A call has returned a success result, which is valid.
C22_Witness ==
    \E c \in calls :
        /\ call[c].pc = "Succeeded"
        /\ call[c].result[1].success
        /\ IsValid(call[c].result[1])

(***************************************************************************)
(* Properties of construction: structural rejection.                       *)
(***************************************************************************)
\* A line item input with a quantity <= 0, a negative unit price or a
\* negative line total.
BadItem(raw) == raw.quantity <= 0 \/ raw.unit_price < 0 \/ raw.total < 0

\* An invoice input with no item, a bad item, a tax rate outside [0, 1] or
\* a negative subtotal, tax or total.
BadInvoice(raw) ==
    \/ Len(raw.items) = 0
    \/ \E i \in 1..Len(raw.items) : BadItem(raw.items[i])
    \/ raw.tax_rate < 0 \/ raw.tax_rate > RateOne
    \/ raw.subtotal < 0 \/ raw.tax < 0 \/ raw.total < 0

\* C23: construction fails on a structurally invalid input (a bad line
\* item; an invoice with an empty item list, a bad item, a tax rate outside
\* [0, 1] or a negative subtotal, tax or total), and every constructed
\* InvoiceData has at least one item and a tax rate within [0, 1].
C23_StructuralRejection ==
    /\ \A r \in {request[i] : i \in DOMAIN request} :
          /\ (r.op = "InvoiceItem" /\ BadItem(r.input)) => (item = None /\ errors /= {})
          /\ (r.op = "InvoiceData" /\ BadInvoice(r.input))
                => (invoice = None /\ errors /= {})
    /\ \A d \in {invoice[i] : i \in DOMAIN invoice} :
          /\ Len(d.items) >= 1
          /\ d.tax_rate >= 0 /\ d.tax_rate <= RateOne

\* An invoice whose only flaw is its empty item list was rejected, for
\* that reason alone.
C23_Witness ==
    /\ request = Some([op |-> "InvoiceData", input |-> NoItemsInput])
    /\ invoice = None
    /\ errors = ConstraintError("items", "too_short", 0)

(***************************************************************************)
(* Properties of persistence in the extraction endpoints.                  *)
(***************************************************************************)
\* The step writes the header row of the invoice of that extraction result.
WritesInvoiceOf(result) ==
    LET r == Construct("InvoiceData", ModelDump(result.extracted_data[1]))
        invoice_data == WithIds(r.object, Len(store.invoices) + 1)
    IN  /\ r.ok
        /\ store'.invoices
              = Append(store.invoices, RowToCsv(InvoiceData_to_csv_header(invoice_data)))

\* A step that writes to the storage is the save of a document whose
\* extraction has returned success in this request.
WritesAfterSuccess ==
    store' /= store
       => \/ /\ handler.pc = "Validated"
             /\ handler.document_id \in uploads
             /\ handler.extraction_result[1].success
             /\ handler.extraction_result[1].document_id = handler.document_id
             /\ WritesInvoiceOf(handler.extraction_result[1])
          \/ /\ InLoop
             /\ LET document_id == batch.body[1][batch.index]
                IN  /\ document_id \in uploads
                    /\ batch'.results[batch.index].document_id = document_id
                    /\ \E result \in ExtractInvoiceData(document_id, now) :
                          /\ result.success
                          /\ result.document_id = document_id
                          /\ WritesInvoiceOf(result)

\* The step ends a document that was not found or whose extraction failed.
EndsWithoutInvoice ==
    \/ /\ handler.pc = "Received"
       /\ handler'.pc = "Responded"
       /\ \/ handler'.response[1].status = 404
          \/ /\ handler'.extraction_result /= None
             /\ ~handler'.extraction_result[1].success
    \/ /\ InLoop
       /\ batch'.pc = "Loop"
       /\ batch'.index = batch.index + 1
       /\ LET entry == batch'.results[batch.index]
          IN  /\ ~entry.success
              /\ \/ entry.error = Some(<<"Document not found">>)
                 \/ \E result \in ExtractInvoiceData(entry.document_id, now) :
                       ~result.success /\ entry.error = result.error_message

\* C24: in POST /extract/<document_id> and in POST /extract/batch the
\* storage is written only by the save of a document whose extraction
\* returned success in the same request, and a document that is not found
\* or whose extraction failed causes no write.
C24_SavedOnlyAfterSuccess ==
    [][WritesAfterSuccess /\ (EndsWithoutInvoice => store' = store)]_vars

\* A batch has met a failed extraction and then saved a document.
C24_Witness ==
    /\ batch.pc = "Responded"
    /\ Len(batch.results) >= 2
    /\ ~batch.results[1].success
    /\ batch.results[1].error /= Some(<<"Document not found">>)
    /\ batch.results[2].success
    /\ Len(store.invoices) = 1
    /\ Len(store.details) > 0

(***************************************************************************)
(* Properties of the extraction id.                                        *)
(***************************************************************************)
\* C28, as stated: the extraction ids of any two extract_invoice_data calls
\* are different, also when both calls are for the same document and start
\* within the same second.
C28_AsStated ==
    \A c \in calls, o \in calls :
        (c /= o /\ call[c].extraction_id /= None /\ call[o].extraction_id /= None)
           => call[c].extraction_id /= call[o].extraction_id

(***************************************************************************)
(* Properties of validate_extraction on constructed invoices.              *)
(***************************************************************************)
\* C29: for an InvoiceData that construction accepted, validate_extraction
\* reports no subtotal warning and no line warning; its only warnings are
\* tax warnings, for a tax off by more than 0.01 and at most 1.00, and its
\* only errors about amounts are total errors, for a total off by more than
\* 0.01 and at most 5.00.
C29_ConstructedFindings ==
    report /= None
       => LET r == report[1]
              d == subject[1]
          IN  /\ ~HasMessage(r.warnings, "Subtotal mismatch")
              /\ ~HasMessage(r.warnings, "Line total mismatch")
              /\ \A k \in 1..Len(r.warnings) :
                    /\ r.warnings[k][1] = "Tax calculation mismatch"
                    /\ TaxOff(d) > ValidationTolerance * RateOne
                    /\ TaxOff(d) <= TaxTolerance * RateOne
              /\ \A k \in 1..Len(r.errors) :
                    /\ r.errors[k][1] \in {"Total mismatch", "Missing invoice number",
                                           "Missing customer name"}
                    /\ r.errors[k][1] = "Total mismatch"
                          => /\ TotalOff(d) > ValidationTolerance
                             /\ TotalOff(d) <= TotalTolerance
              /\ HasMessage(r.warnings, "Tax calculation mismatch")
                    <=> TaxOff(d) > ValidationTolerance * RateOne
              /\ HasMessage(r.errors, "Total mismatch") <=> TotalOff(d) > ValidationTolerance

\* A constructed invoice with a line off by 0.01 and a subtotal off by 0.01
\* was validated: it has a tax warning and a total error, and nothing else.
C29_Witness ==
    /\ report /= None
    /\ LineOff(subject[1].items[1]) = ValidationTolerance
    /\ SubtotalOff(subject[1]) = ValidationTolerance
    /\ Len(report[1].warnings) = 1
    /\ HasMessage(report[1].warnings, "Tax calculation mismatch")
    /\ Len(report[1].errors) = 1
    /\ HasMessage(report[1].errors, "Total mismatch")

====
